---- MODULE Spec2Model ----
(***************************************************************************)
(* Model of the AI-TAX reconciliation pipeline: the multi-document         *)
(* combiner (src/app.py) and the tax calculator (src/tax_calculator.py).   *)
(*                                                                         *)
(* Numbers.  Python floats are modelled as exact decimal fixed-point       *)
(* numbers with five fractional digits, kept in two limbs so that every    *)
(* intermediate stays inside TLC's 32-bit integers:                        *)
(*      [d |-> whole dollars (floor), u |-> 0 .. Scale-1]                  *)
(* stands for d + u / Scale.  Inputs carry at most three fractional        *)
(* digits, so a band times a whole-percent rate is exact in five digits.   *)
(* round(x, 2) is modelled on the exact value (ties to the even cent); the *)
(* binary float agrees with it except at an exact tie, and the input sets  *)
(* below contain no value whose tax is an exact tie.                       *)
(***************************************************************************)
EXTENDS Integers, Sequences, FiniteSets, TLC

VARIABLES
    fed_calls,      \* number of calculate_federal_tax calls made (capped at 2)
    fed_arg,        \* argument of the latest calculate_federal_tax call
    fed_ret,        \* value it returned
    fed_prev_arg,   \* argument of the call before it
    fed_prev_ret,   \* value that call returned
    profile,        \* the profile as it was when calculate_taxes was called
    tax_data,       \* the dictionary object passed to calculate_taxes
    calculations,   \* the result calculate_taxes returned
    calc_pc,        \* "ready" before the call, "done" after it
    all_tax_data,   \* the sequence of records passed to the combiner
    combine_ret,    \* what combine_multiple_tax_documents returned or raised
    combine_pc,     \* "ready" before the call, "done" after it
    text,           \* the document text passed to extract_tax_data_with_ai
    attempt,        \* loop variable of the retry loop
    service_calls,  \* number of gemini_model.generate_content calls made
    response,       \* what the latest service call gave
    outcomes,       \* per attempt made: "" for success, else the error raised
    last_error,     \* last_error of the retry loop
    waits,          \* the time.sleep durations so far, in seconds
    extract_ret,    \* what extract_tax_data_with_ai returned or raised
    extract_pc,     \* position in extract_tax_data_with_ai
    upload,         \* per request handler: position and locals of upload_file
    served,         \* number of upload requests started so far
    current_tax_data,      \* app.config['current_tax_data']
    current_calculations,  \* app.config['current_calculations']
    tax_source,     \* id of the request that stored current_tax_data (0: none)
    calc_source,    \* id of the request that stored current_calculations
    form            \* position and locals of the form generation request

fedVars == <<fed_calls, fed_arg, fed_ret, fed_prev_arg, fed_prev_ret>>

calcVars == <<profile, tax_data, calculations, calc_pc>>

combineVars == <<all_tax_data, combine_ret, combine_pc>>

extractVars ==
    <<text, attempt, service_calls, response, outcomes, last_error, waits,
      extract_ret, extract_pc>>

cacheVars == <<current_tax_data, current_calculations, tax_source, calc_source>>

uploadVars == <<upload, served, cacheVars, form>>

vars == <<fedVars, calcVars, combineVars, extractVars, uploadVars>>

----------------------------------------------------------------------------
(* Fixed-point arithmetic standing for Python float arithmetic *)

Scale == 100000

M(d, u) == [d |-> d, u |-> u]

Dollars(n) == M(n, 0)

\* n dollars and m thousandths of a dollar
Mills(n, m) == M(n, m * 100)

Norm(d, u) == M(d + (u \div Scale), u % Scale)

Add(a, b) == Norm(a.d + b.d, a.u + b.u)

Sub(a, b) == Norm(a.d - b.d, a.u - b.u)

Lt(a, b) == a.d < b.d \/ (a.d = b.d /\ a.u < b.u)

Le(a, b) == a.d < b.d \/ (a.d = b.d /\ a.u <= b.u)

Zero == Dollars(0)

MaxOf(a, b) == IF Lt(a, b) THEN b ELSE a

MinOf(a, b) == IF Lt(b, a) THEN b ELSE a

\* a * pct / 100 for a >= 0 and a whole percentage pct (a.u a multiple of 100)
MulRate(a, pct) ==
    LET dh   == a.d \div 100
        dl   == a.d % 100
        low  == dl * pct
        frac == (low % 100) * (Scale \div 100) + (a.u * pct) \div 100
    IN  Norm(dh * pct + (low \div 100), frac)

\* round(x, 2)
Round2(a) ==
    LET c  == a.u \div 1000
        r  == a.u % 1000
        up == r > 500 \/ (r = 500 /\ c % 2 = 1)
    IN  Norm(a.d, (c + (IF up THEN 1 ELSE 0)) * 1000)

----------------------------------------------------------------------------
(* Python values: a float, a text (sequence of characters, or a plain     *)
(* string for the enumerated fields), or None                               *)

Num(m) == [k |-> "num", n |-> m, s |-> <<>>]

Str(s) == [k |-> "str", n |-> Zero, s |-> s]

None == [k |-> "none", n |-> Zero, s |-> <<>>]

\* dict.get(key, default)
Get(f, key, default) == IF key \in DOMAIN f THEN f[key] ELSE default

\* the dictionary f with f[key] = value
Put(f, key, value) == [x \in DOMAIN f \cup {key} |-> IF x = key THEN value ELSE f[x]]

\* the record r without the keys in drop
Without(r, drop) == [x \in DOMAIN r \ drop |-> r[x]]

Digits == <<"0", "1", "2", "3", "4", "5", "6", "7", "8", "9">>

IsDigit(c) == \E i \in 1..10 : Digits[i] = c

DigitVal(c) == (CHOOSE i \in 1..10 : Digits[i] = c) - 1

IsSpace(c) == c = " "

\* str.strip()
RECURSIVE StripLeft(_)
StripLeft(s) == IF s # <<>> /\ IsSpace(Head(s)) THEN StripLeft(Tail(s)) ELSE s

RECURSIVE StripRight(_)
StripRight(s) ==
    IF s # <<>> /\ IsSpace(s[Len(s)]) THEN StripRight(SubSeq(s, 1, Len(s) - 1)) ELSE s

Strip(s) == StripRight(StripLeft(s))

AllDigits(s) == \A i \in 1..Len(s) : IsDigit(s[i])

\* the digits s read as a base-10 integer
RECURSIVE DigitsValue(_)
DigitsValue(s) ==
    IF s = <<>> THEN 0
    ELSE 10 * DigitsValue(SubSeq(s, 1, Len(s) - 1)) + DigitVal(s[Len(s)])

\* the digits s read as a fraction, in units of 1 / Scale (five digits kept)
FractionValue(s) ==
    LET five == [i \in 1..5 |-> IF i <= Len(s) THEN s[i] ELSE "0"]
    IN  DigitsValue(five)

\* float(text) is [ws] [sign] digits [. digits] [ws]; anything else is ValueError

ParseError == [ok |-> FALSE, exc |-> "ValueError", n |-> Zero]

\* the integer digits ip and the fraction digits fp
ParseDigits(ip, fp) ==
    IF AllDigits(ip) /\ AllDigits(fp) /\ Len(ip) + Len(fp) > 0
    THEN [ok |-> TRUE, exc |-> "", n |-> M(DigitsValue(ip), FractionValue(fp))]
    ELSE ParseError

\* the unsigned text body, dots the positions of its decimal points
ParseSplit(body, dots) ==
    IF dots = {} THEN ParseDigits(body, <<>>)
    ELSE IF Cardinality(dots) > 1 THEN ParseError
    ELSE ParseDigits(SubSeq(body, 1, (CHOOSE i \in dots : TRUE) - 1),
                     SubSeq(body, (CHOOSE i \in dots : TRUE) + 1, Len(body)))

ParseUnsigned(body) == ParseSplit(body, {i \in 1..Len(body) : body[i] = "."})

Negated(r) == IF r.ok THEN [r EXCEPT !.n = Sub(Zero, r.n)] ELSE r

\* the stripped text t
ParseSigned(t) ==
    IF t # <<>> /\ Head(t) = "-" THEN Negated(ParseUnsigned(Tail(t)))
    ELSE IF t # <<>> /\ Head(t) = "+" THEN ParseUnsigned(Tail(t))
    ELSE ParseUnsigned(t)

ParseFloat(s) == ParseSigned(Strip(s))

\* float(value)
ToFloat(v) ==
    IF v.k = "num" THEN [ok |-> TRUE, exc |-> "", n |-> v.n]
    ELSE IF v.k = "str" THEN ParseFloat(v.s)
    ELSE [ok |-> FALSE, exc |-> "TypeError", n |-> Zero]

----------------------------------------------------------------------------
(* TaxCalculator.__init__ *)

\* (bracket_limit, rate in percent); inf marks float('inf')
tax_brackets_single ==
    << [limit |-> Dollars(11000),  inf |-> FALSE, rate |-> 10],
       [limit |-> Dollars(44725),  inf |-> FALSE, rate |-> 12],
       [limit |-> Dollars(95375),  inf |-> FALSE, rate |-> 22],
       [limit |-> Dollars(182050), inf |-> FALSE, rate |-> 24],
       [limit |-> Dollars(231250), inf |-> FALSE, rate |-> 32],
       [limit |-> Dollars(578125), inf |-> FALSE, rate |-> 35],
       [limit |-> Dollars(0),      inf |-> TRUE,  rate |-> 37] >>

\* $100M sanity check of calculate_federal_tax
MaxTaxableIncome == 100000000

\* 2024 Standard Deductions
standard_deductions ==
    [fs \in {"single", "married_filing_jointly", "married_filing_separately",
             "head_of_household"} |->
        CASE fs = "single" -> 14600
          [] fs = "married_filing_jointly" -> 29200
          [] fs = "married_filing_separately" -> 14600
          [] fs = "head_of_household" -> 21900]

\* $50M sanity check of validate_tax_data
MaxFieldValue == 50000000

\* standard_deductions.get(filing_status, 14600)
DefaultDeduction == 14600

----------------------------------------------------------------------------
(* TaxCalculator.calculate_federal_tax *)

\* min(taxable_income, bracket_limit)
MinLimit(t, b) == IF b.inf THEN t ELSE MinOf(t, b.limit)

\* taxable_income <= bracket_limit
LeLimit(t, b) == b.inf \/ Le(t, b.limit)

\* the loop with previous_bracket never advanced
RECURSIVE BracketLoopNoAdvance(_, _, _, _)
BracketLoopNoAdvance(t, i, previous_bracket, total_tax) ==
    IF i > Len(tax_brackets_single) THEN total_tax
    ELSE IF Le(t, previous_bracket) THEN total_tax
    ELSE LET b                  == tax_brackets_single[i]
             taxable_in_bracket == Sub(MinLimit(t, b), previous_bracket)
             bracket_tax        == MulRate(taxable_in_bracket, b.rate)
             new_total          == Add(total_tax, bracket_tax)
         IN  IF LeLimit(t, b) THEN new_total
             ELSE BracketLoopNoAdvance(t, i + 1, previous_bracket, new_total)

\* the loop with total_tax = bracket_tax in place of total_tax += bracket_tax
RECURSIVE BracketLoopAssign(_, _, _, _)
BracketLoopAssign(t, i, previous_bracket, total_tax) ==
    IF i > Len(tax_brackets_single) THEN total_tax
    ELSE IF Le(t, previous_bracket) THEN total_tax
    ELSE LET b                  == tax_brackets_single[i]
             taxable_in_bracket == Sub(MinLimit(t, b), previous_bracket)
             bracket_tax        == MulRate(taxable_in_bracket, b.rate)
         IN  IF LeLimit(t, b) THEN bracket_tax
             ELSE BracketLoopAssign(t, i + 1, b.limit, bracket_tax)

\* the for loop over the brackets, entered at bracket i
RECURSIVE BracketLoop(_, _, _, _)
BracketLoop(t, i, previous_bracket, total_tax) ==
    IF i > Len(tax_brackets_single) THEN total_tax
    ELSE IF Le(t, previous_bracket) THEN total_tax
    ELSE LET b                  == tax_brackets_single[i]
             taxable_in_bracket == Sub(MinLimit(t, b), previous_bracket)
             bracket_tax        == MulRate(taxable_in_bracket, b.rate)
             new_total          == Add(total_tax, bracket_tax)
         IN  IF LeLimit(t, b) THEN new_total
             ELSE BracketLoop(t, i + 1, b.limit, new_total)

\* the body of the try block: what it returns, or that it raised ValueError
FederalTaxTry(t) ==
    IF Le(t, Zero) THEN [raised |-> FALSE, value |-> Zero]
    ELSE IF Lt(Dollars(MaxTaxableIncome), t) THEN [raised |-> TRUE, value |-> Zero]
    ELSE [raised |-> FALSE, value |-> Round2(BracketLoop(t, 1, Zero, Zero))]

\* except Exception: return 0.0
calculate_federal_tax(t) ==
    IF FederalTaxTry(t).raised THEN Zero ELSE FederalTaxTry(t).value

----------------------------------------------------------------------------
(* TaxCalculator.validate_tax_data *)

\* str.lower() on the texts the filing status is drawn from
Lower(s) ==
    CASE s = "Single" -> "single"
      [] s = "SINGLE" -> "single"
      [] s = "Head_Of_Household" -> "head_of_household"
      [] s = "Married_Filing_Jointly" -> "married_filing_jointly"
      [] OTHER -> s

\* not tax_data: None and the empty dictionary are falsy
Falsy(td) == td.kind = "none" \/ (td.kind = "dict" /\ DOMAIN td.f = {})

monetary_fields_validated ==
    <<"wages", "interest_income", "other_income", "federal_withholding">>

\* the checks of the try block on c, the outcome of float(value): what the
\* block does, or the exception it raises
FieldChecks(c) ==
    IF ~c.ok THEN c.exc
    ELSE IF Lt(c.n, Zero) THEN "clamp"
    ELSE IF Lt(Dollars(MaxFieldValue), c.n) THEN "ValueError"
    ELSE "keep"

\* the try block of one monetary field
FieldTry(value) == FieldChecks(ToFloat(value))

\* one pass of the loop body: the except clause catches ValueError and TypeError,
\* the ValueError of the sanity check included, and stores 0
ValidateField(f, field) ==
    IF FieldTry(Get(f, field, Num(Zero))) = "keep" THEN f
    ELSE Put(f, field, Num(Zero))

RECURSIVE ValidateFields(_, _)
ValidateFields(f, i) ==
    IF i > Len(monetary_fields_validated) THEN f
    ELSE ValidateFields(ValidateField(f, monetary_fields_validated[i]), i + 1)

\* the filing status check with a status outside the table left in place
ValidateStatusKeep(td, f1, fs) ==
    IF fs.k # "str"
    THEN [raised |-> "AttributeError", data |-> [td EXCEPT !.f = f1]]
    ELSE [raised |-> "", data |-> [td EXCEPT !.f = f1]]

\* the filing status check on f1, the dictionary after the monetary loop, and
\* fs = tax_data.get('filing_status', 'single')
ValidateStatus(td, f1, fs) ==
    IF fs.k # "str"
    THEN [raised |-> "AttributeError", data |-> [td EXCEPT !.f = f1]]
    ELSE IF Lower(fs.s) \notin DOMAIN standard_deductions
    THEN [raised |-> "",
          data |-> [td EXCEPT !.f = Put(f1, "filing_status", Str("single"))]]
    ELSE [raised |-> "", data |-> [td EXCEPT !.f = f1]]

ValidateDict(td, f1) == ValidateStatus(td, f1, Get(f1, "filing_status", Str("single")))

\* the dictionary is mutated in place: data is its state when the call ends,
\* raised the exception that left the call ("" when it returned)
validate_tax_data(td) ==
    IF Falsy(td) THEN [raised |-> "ValueError", data |-> td]
    ELSE IF td.kind # "dict" THEN [raised |-> "ValueError", data |-> td]
    ELSE ValidateDict(td, ValidateFields(td.f, 1))

----------------------------------------------------------------------------
(* TaxCalculator.calculate_taxes *)

\* the result of either except clause
ErrorResult(kind) ==
    [error |-> kind,
     total_income |-> Zero,
     standard_deduction |-> DefaultDeduction,
     taxable_income |-> Zero,
     federal_tax |-> Zero,
     federal_withholding |-> Zero,
     refund_or_owed |-> Zero,
     is_refund |-> FALSE,
     filing_status |-> "single",
     calculation_success |-> FALSE]

\* standard_deductions.get(filing_status, 14600)
LookupDeduction(filing_status) ==
    IF filing_status \in DOMAIN standard_deductions
    THEN standard_deductions[filing_status] ELSE DefaultDeduction

\* taxable_income = total_income - standard_deduction, the max(0, ...) dropped
TaxableIncomeUnclamped(total_income, standard_deduction) ==
    Sub(total_income, Dollars(standard_deduction))

\* taxable_income = max(0, total_income - standard_deduction)
TaxableIncomeOf(total_income, standard_deduction) ==
    MaxOf(Zero, Sub(total_income, Dollars(standard_deduction)))

\* total_income = wages + interest_income + other_income + dividend_income
TotalIncomeWithDividends(f, wages, interest_income, other_income) ==
    Add(Add(Add(wages, interest_income), other_income),
        ToFloat(Get(f, "dividend_income", Num(Zero))).n)

\* total_income = wages + interest_income + other_income
TotalIncomeOf(f, wages, interest_income, other_income) ==
    Add(Add(wages, interest_income), other_income)

\* if total_income < 0: total_income = 0
NonNegative(total_income) == IF Lt(total_income, Zero) THEN Zero ELSE total_income

\* the returned dictionary
Report(total_income, standard_deduction, taxable_income, federal_tax, federal_withholding, refund_or_owed, filing_status) ==
    [total_income |-> Round2(total_income),
     standard_deduction |-> standard_deduction,
     taxable_income |-> Round2(taxable_income),
     federal_tax |-> Round2(federal_tax),
     federal_withholding |-> Round2(federal_withholding),
     refund_or_owed |-> Round2(refund_or_owed),
     is_refund |-> Lt(Zero, refund_or_owed),
     filing_status |-> filing_status,
     calculation_success |-> TRUE]

\* refund_or_owed = federal_withholding - federal_tax
WithRefund(total_income, standard_deduction, taxable_income, federal_tax, federal_withholding, filing_status) ==
    Report(total_income, standard_deduction, taxable_income, federal_tax,
           federal_withholding, Sub(federal_withholding, federal_tax), filing_status)

\* federal_tax = self.calculate_federal_tax(taxable_income)
WithTax(total_income, standard_deduction, taxable_income, federal_withholding, filing_status) ==
    WithRefund(total_income, standard_deduction, taxable_income,
               calculate_federal_tax(taxable_income), federal_withholding,
               filing_status)

\* taxable_income from total_income and the standard deduction
WithDeduction(total_income, standard_deduction, federal_withholding, filing_status) ==
    WithTax(total_income, standard_deduction,
            TaxableIncomeOf(total_income, standard_deduction),
            federal_withholding, filing_status)

\* the try block from the total on
FromTotal(total_income, federal_withholding, filing_status) ==
    WithDeduction(total_income, LookupDeduction(filing_status),
                  federal_withholding, filing_status)

\* the try block on the converted values: each of the first four is the
\* outcome of a float(...) call, fsv is tax_data.get('filing_status', 'single')
FromFloats(f, wages, interest_income, other_income, federal_withholding, fsv) ==
    IF \E c \in {wages, interest_income, other_income, federal_withholding} :
           ~c.ok /\ c.exc = "ValueError"
    THEN ErrorResult("validation")
    ELSE IF (\E c \in {wages, interest_income, other_income, federal_withholding} :
                 ~c.ok) \/ fsv.k # "str"
    THEN ErrorResult("unexpected")
    ELSE FromTotal(NonNegative(TotalIncomeOf(f, wages.n, interest_income.n,
                                             other_income.n)),
                   federal_withholding.n, Lower(fsv.s))

\* the try block after validation, on the validated dictionary f
ComputeResult(f) ==
    FromFloats(f,
               ToFloat(Get(f, "wages", Num(Zero))),
               ToFloat(Get(f, "interest_income", Num(Zero))),
               ToFloat(Get(f, "other_income", Num(Zero))),
               ToFloat(Get(f, "federal_withholding", Num(Zero))),
               Get(f, "filing_status", Str("single")))

\* the except clauses without the catch-all: an exception other than
\* ValueError leaves calculate_taxes and no result is returned
AfterValidationNoCatchAll(v) ==
    [data |-> v.data,
     ret  |-> IF v.raised = "ValueError" THEN ErrorResult("validation")
              ELSE IF v.raised # "" THEN [raised |-> v.raised]
              ELSE ComputeResult(v.data.f)]

\* the except clauses, v being the outcome of validate_tax_data
AfterValidation(v) ==
    [data |-> v.data,
     ret  |-> IF v.raised = "ValueError" THEN ErrorResult("validation")
              ELSE IF v.raised # "" THEN ErrorResult("unexpected")
              ELSE ComputeResult(v.data.f)]

\* ret is the returned result, data the passed dictionary after the call
calculate_taxes(td) == AfterValidation(validate_tax_data(td))

----------------------------------------------------------------------------
(* combine_multiple_tax_documents (src/app.py) *)

\* truthiness of a Python value: 0, 0.0, "" and None are falsy
Truthy(v) ==
    CASE v.k = "num" -> v.n # Zero
      [] v.k = "str" -> v.s # <<>>
      [] OTHER -> FALSE

\* len(data.get('taxpayer_name', '').strip())
NameLen(data) == Len(Strip(Get(data, "taxpayer_name", Str(<<>>)).s))

\* the loop that looks for the primary taxpayer: the first record whose name is
\* longer than the name of the base record; 0 when the loop ends without one
PrimaryIndex(all) ==
    LET longer == {i \in 1..Len(all) :
                      /\ Truthy(Get(all[i], "taxpayer_name", None))
                      /\ NameLen(all[i]) > NameLen(all[1])}
    IN  IF longer = {} THEN 0 ELSE CHOOSE i \in longer : \A j \in longer : i <= j

identity_fields == <<"taxpayer_name", "ssn", "address", "city", "state", "zip_code">>

\* combined.update({...}) from the primary taxpayer
RECURSIVE UpdateIdentity(_, _, _)
UpdateIdentity(combined, primary, i) ==
    IF i > Len(identity_fields)
    THEN Put(combined, "filing_status", Get(primary, "filing_status", Str("single")))
    ELSE UpdateIdentity(
             Put(combined, identity_fields[i],
                 Get(primary, identity_fields[i],
                     IF identity_fields[i] = "taxpayer_name" THEN Str(<<>>) ELSE Str(""))),
             primary, i + 1)

monetary_fields ==
    <<"wages", "interest_income", "dividend_income", "other_income",
      "federal_withholding", "state_withholding",
      "social_security_wages", "medicare_wages">>

\* float(value) if value else 0, inside try / except (ValueError, TypeError): continue
Contribution(data, field) ==
    LET value == Get(data, field, Num(Zero))
        c     == ToFloat(value)
    IN  IF ~Truthy(value) THEN Zero
        ELSE IF c.ok THEN c.n ELSE Zero

\* the inner loop with the first record left out
RECURSIVE SumFieldSkipFirst(_, _, _)
SumFieldSkipFirst(all, field, k) ==
    IF k <= 1 THEN Zero
    ELSE Add(SumFieldSkipFirst(all, field, k - 1), Contribution(all[k], field))

\* the inner loop: total of one field over the first k records
RECURSIVE SumField(_, _, _)
SumField(all, field, k) ==
    IF k = 0 THEN Zero
    ELSE Add(SumField(all, field, k - 1), Contribution(all[k], field))

RECURSIVE SumMonetary(_, _, _)
SumMonetary(combined, all, i) ==
    IF i > Len(monetary_fields) THEN combined
    ELSE SumMonetary(
             Put(combined, monetary_fields[i],
                 Num(SumField(all, monetary_fields[i], Len(all)))),
             all, i + 1)

\* the values of one key in order, duplicates kept
RECURSIVE FirstSeenKeepAll(_, _, _, _)
FirstSeenKeepAll(all, key, default, k) ==
    IF k = 0 THEN <<>>
    ELSE Append(FirstSeenKeepAll(all, key, default, k - 1), Get(all[k], key, default))

\* the values of one key in first-seen order, duplicates removed
RECURSIVE FirstSeen(_, _, _, _)
FirstSeen(all, key, default, k) ==
    IF k = 0 THEN <<>>
    ELSE LET before == FirstSeen(all, key, default, k - 1)
             v      == Get(all[k], key, default)
         IN  IF \E j \in 1..Len(before) : before[j] = v THEN before
             ELSE Append(before, v)

\* max(data.get(key, 0) for data in all_tax_data)
MaxConfidence(all, key) ==
    LET vals == {Get(all[i], key, Num(Zero)).n : i \in 1..Len(all)}
    IN  Num(CHOOSE m \in vals : \A x \in vals : Le(x, m))

qualities == <<"high", "medium", "low">>

QualityIndex(q) == CHOOSE i \in 1..3 : qualities[i] = q

\* the loop with the comparison turned round: the worst quality wins
RECURSIVE BestQualityReversed(_, _)
BestQualityReversed(all, k) ==
    IF k = 0 THEN "low"
    ELSE LET best    == BestQualityReversed(all, k - 1)
             quality == Get(all[k], "document_quality", Str("medium")).s
         IN  IF (\E i \in 1..3 : qualities[i] = quality)
                    /\ QualityIndex(quality) > QualityIndex(best)
             THEN quality ELSE best

\* the best-quality loop, over the first k records
RECURSIVE BestQuality(_, _)
BestQuality(all, k) ==
    IF k = 0 THEN "low"
    ELSE LET best    == BestQuality(all, k - 1)
             quality == Get(all[k], "document_quality", Str("medium")).s
         IN  IF (\E i \in 1..3 : qualities[i] = quality)
                    /\ QualityIndex(quality) < QualityIndex(best)
             THEN quality ELSE best

\* list(set(all_flags))
AllFlags(all) == UNION {Get(all[i], "validation_flags", {}) : i \in 1..Len(all)}

\* the stripped non-empty values of one key, first-seen order, no duplicates
RECURSIVE StrippedSeen(_, _, _)
StrippedSeen(all, key, k) ==
    IF k = 0 THEN <<>>
    ELSE LET before == StrippedSeen(all, key, k - 1)
             v      == Strip(Get(all[k], key, Str(<<>>)).s)
         IN  IF v = <<>> \/ (\E j \in 1..Len(before) : before[j] = v) THEN before
             ELSE Append(before, v)

\* '; '.join(items) if items else ''
RECURSIVE Join(_)
Join(items) ==
    IF items = <<>> THEN <<>>
    ELSE IF Len(items) = 1 THEN items[1]
    ELSE Join(SubSeq(items, 1, Len(items) - 1)) \o <<";", " ">> \o items[Len(items)]

\* the merge of two or more records
Merge(all) ==
    LET base     == all[1]
        p        == PrimaryIndex(all)
        c1       == IF p = 0 THEN base ELSE UpdateIdentity(base, all[p], 1)
        c2       == SumMonetary(c1, all, 1)
        types    == FirstSeen(all, "document_type", Str("Other"), Len(all))
        c3       == Put(c2, "document_type",
                        IF Len(types) = 1 THEN types[1] ELSE Str("Multiple"))
        c4       == Put(c3, "source_files",
                        FirstSeen(all, "source_filename", Str("Unknown"), Len(all)))
        c5       == Put(c4, "documents_processed", Len(all))
        c6       == Put(c5, "classification_confidence",
                        MaxConfidence(all, "classification_confidence"))
        c7       == Put(c6, "extraction_confidence",
                        MaxConfidence(all, "extraction_confidence"))
        c8       == Put(c7, "document_quality", Str(BestQuality(all, Len(all))))
        c9       == Put(c8, "validation_flags", AllFlags(all))
        c10      == Put(c9, "requires_review",
                        \E i \in 1..Len(all) : Get(all[i], "requires_review", FALSE))
        c11      == Put(c10, "payer_name",
                        Str(Join(StrippedSeen(all, "payer_name", Len(all)))))
    IN  Put(c11, "employer_ein",
            Str(Join(StrippedSeen(all, "employer_ein", Len(all)))))

\* an empty input goes through the merge and yields an empty profile
CombineNoEmptyCheck(all) ==
    IF Len(all) = 0 THEN [raised |-> "", ret |-> <<>>]
    ELSE IF Len(all) = 1 THEN [raised |-> "", ret |-> all[1]]
    ELSE [raised |-> "", ret |-> Merge(all)]

\* a single record goes through the merge like any other
CombineNoShortcut(all) ==
    IF Len(all) = 0 THEN [raised |-> "ValueError", ret |-> <<>>]
    ELSE [raised |-> "", ret |-> Merge(all)]

\* requires_review taken from the first record alone
CombineReviewOfFirst(all) ==
    IF Len(all) = 0 THEN [raised |-> "ValueError", ret |-> <<>>]
    ELSE IF Len(all) = 1 THEN [raised |-> "", ret |-> all[1]]
    ELSE [raised |-> "",
          ret |-> Put(Merge(all), "requires_review",
                      Get(all[1], "requires_review", FALSE))]

\* raised is the exception that left the call ("" when it returned ret)
combine_multiple_tax_documents(all) ==
    IF Len(all) = 0 THEN [raised |-> "ValueError", ret |-> <<>>]
    ELSE IF Len(all) = 1 THEN [raised |-> "", ret |-> all[1]]
    ELSE [raised |-> "", ret |-> Merge(all)]

----------------------------------------------------------------------------
(* extract_tax_data_with_ai (src/app.py): values of the parsed JSON object *)

\* a JSON integer, a JSON true / false, the JSON literal NaN, and a JSON
\* integer too large for a float
PyInt(i) == [k |-> "int", n |-> Dollars(i), s |-> <<>>]

PyBool(b) == [k |-> "bool", n |-> Dollars(IF b THEN 1 ELSE 0), s |-> <<>>]

NaN == [k |-> "nan", n |-> Zero, s |-> <<>>]

BigInt == [k |-> "bigint", n |-> Zero, s |-> <<>>]

\* the decimal digits of a natural number
RECURSIVE IntDigits(_)
IntDigits(i) ==
    IF i < 10 THEN <<Digits[i + 1]>>
    ELSE Append(IntDigits(i \div 10), Digits[(i % 10) + 1])

RECURSIVE Pow10(_)
Pow10(e) == IF e = 0 THEN 1 ELSE 10 * Pow10(e - 1)

\* the fraction digits of u / Scale without trailing zeros, one digit at least
RECURSIVE FractionDigits(_, _)
FractionDigits(u, width) ==
    IF width = 1 \/ u % 10 # 0
    THEN [i \in 1..width |-> Digits[((u \div Pow10(width - i)) % 10) + 1]]
    ELSE FractionDigits(u \div 10, width - 1)

\* str(value) for the values a text field is drawn from
PyStr(v) ==
    CASE v.k = "str"  -> v.s
      [] v.k = "none" -> <<"N", "o", "n", "e">>
      [] v.k = "int"  -> IntDigits(v.n.d)
      [] v.k = "bool" -> IF v.n.d = 1 THEN <<"T", "r", "u", "e">> ELSE <<"F", "a", "l", "s", "e">>
      [] v.k = "num"  -> IntDigits(v.n.d) \o <<".">> \o FractionDigits(v.n.u, 5)

UpperLetters == <<"A", "B", "C", "D", "E", "F", "G", "H", "I", "J", "K", "L", "M", "N", "O", "P", "Q", "R", "S", "T", "U", "V", "W", "X", "Y", "Z">>

LowerLetters == <<"a", "b", "c", "d", "e", "f", "g", "h", "i", "j", "k", "l", "m", "n", "o", "p", "q", "r", "s", "t", "u", "v", "w", "x", "y", "z">>

\* str.lower() of one character
LowerChar(c) ==
    IF \E i \in 1..26 : UpperLetters[i] = c
    THEN LowerLetters[CHOOSE i \in 1..26 : UpperLetters[i] = c]
    ELSE c

\* str.lower()
LowerText(s) == [i \in 1..Len(s) |-> LowerChar(s[i])]

\* str.replace(c, '')
RECURSIVE RemoveChar(_, _)
RemoveChar(s, c) ==
    IF s = <<>> THEN <<>>
    ELSE IF Head(s) = c THEN RemoveChar(Tail(s), c)
    ELSE <<Head(s)>> \o RemoveChar(Tail(s), c)

\* ''.join(filter(str.isdigit, s))
RECURSIVE OnlyDigits(_)
OnlyDigits(s) ==
    IF s = <<>> THEN <<>>
    ELSE IF IsDigit(Head(s)) THEN <<Head(s)>> \o OnlyDigits(Tail(s))
    ELSE OnlyDigits(Tail(s))

----------------------------------------------------------------------------
(* extract_tax_data_with_ai: validation of the parsed JSON object *)

required_fields ==
    <<"document_type", "classification_confidence", "document_quality",
      "taxpayer_name", "ssn", "itin", "filing_status",
      "wages", "interest_income", "dividend_income", "other_income",
      "federal_withholding", "state_withholding", "social_security_wages",
      "medicare_wages", "address", "city", "state", "zip_code",
      "employer_ein", "payer_name", "validation_flags",
      "extraction_confidence", "requires_review">>

money_fields ==
    <<"wages", "interest_income", "dividend_income", "other_income",
      "federal_withholding", "state_withholding", "social_security_wages",
      "medicare_wages">>

\* the default of a missing field, by the type of the field
FieldDefault(field) ==
    IF (\E i \in 1..Len(money_fields) : money_fields[i] = field)
           \/ field \in {"classification_confidence", "extraction_confidence"}
    THEN Num(Zero)
    ELSE IF field = "validation_flags" THEN <<>>
    ELSE IF field = "requires_review" THEN FALSE
    ELSE Str(<<>>)

\* the loop over required_fields
RECURSIVE FillDefaults(_, _)
FillDefaults(data, i) ==
    IF i > Len(required_fields) THEN data
    ELSE IF required_fields[i] \in DOMAIN data THEN FillDefaults(data, i + 1)
    ELSE FillDefaults(Put(data, required_fields[i], FieldDefault(required_fields[i])),
                      i + 1)

\* value.replace('$', '').replace(',', '').strip() when the value is a text
CleanMoney(value) ==
    IF value.k = "str"
    THEN Str(Strip(RemoveChar(RemoveChar(value.s, "$"), ",")))
    ELSE value

\* float(text) also reads the text nan, in any case and with a sign
NaNTexts == {<<"n", "a", "n">>, <<"+", "n", "a", "n">>, <<"-", "n", "a", "n">>}

\* what float(value) gives: v the float, or exc the exception it raises
Floated(exc, v) == [exc |-> exc, v |-> v]

FloatOfParse(c) == IF c.ok THEN Floated("", Num(c.n)) ELSE Floated(c.exc, Num(Zero))

MoneyFloat(value) ==
    CASE value.k = "num"    -> Floated("", value)
      [] value.k = "int"    -> Floated("", Num(value.n))
      [] value.k = "bool"   -> Floated("", Num(value.n))
      [] value.k = "nan"    -> Floated("", NaN)
      [] value.k = "bigint" -> Floated("OverflowError", Num(Zero))
      [] value.k = "none"   -> Floated("TypeError", Num(Zero))
      [] value.k = "str"    ->
             IF LowerText(Strip(value.s)) \in NaNTexts THEN Floated("", NaN)
             ELSE FloatOfParse(ParseFloat(value.s))

\* the range checks on the converted value: every comparison with nan is false
RangeChecked(v) ==
    IF v.k = "nan" THEN v
    ELSE IF Lt(v.n, Zero) THEN Num(Zero)
    ELSE v

\* the try block of one money field on c, the outcome of float(value): the
\* except clause catches ValueError and TypeError only
StoreMoney(data, field, c) ==
    IF c.exc \in {"ValueError", "TypeError"}
    THEN [exc |-> "", data |-> Put(data, field, Num(Zero))]
    ELSE IF c.exc # "" THEN [exc |-> c.exc, data |-> data]
    ELSE [exc |-> "", data |-> Put(data, field, RangeChecked(c.v))]

\* the loop over the money fields, from field i on; r is the outcome so far
RECURSIVE MoneyLoop(_, _)
MoneyLoop(r, i) ==
    IF r.exc # "" \/ i > Len(money_fields) THEN r
    ELSE MoneyLoop(StoreMoney(r.data, money_fields[i],
                              MoneyFloat(CleanMoney(r.data[money_fields[i]]))),
                   i + 1)

str_fields ==
    <<"document_type", "document_quality", "taxpayer_name", "ssn", "itin",
      "filing_status", "address", "city", "state", "zip_code", "employer_ein",
      "payer_name">>

\* data[str_field] = str(data[str_field]).strip()
RECURSIVE StringLoop(_, _)
StringLoop(data, i) ==
    IF i > Len(str_fields) THEN data
    ELSE StringLoop(Put(data, str_fields[i], Str(Strip(PyStr(data[str_fields[i]])))),
                    i + 1)

filing_statuses ==
    {<<"s", "i", "n", "g", "l", "e">>,
     <<"m", "a", "r", "r", "i", "e", "d", "_", "f", "i", "l", "i", "n", "g", "_", "j", "o", "i", "n", "t", "l", "y">>,
     <<"m", "a", "r", "r", "i", "e", "d", "_", "f", "i", "l", "i", "n", "g", "_", "s", "e", "p", "a", "r", "a", "t", "e", "l", "y">>,
     <<"h", "e", "a", "d", "_", "o", "f", "_", "h", "o", "u", "s", "e", "h", "o", "l", "d">>,
     <<"q", "u", "a", "l", "i", "f", "y", "i", "n", "g", "_", "w", "i", "d", "o", "w">>}

document_types ==
    {<<"W", "-", "2">>, <<"1", "0", "9", "9", "-", "I", "N", "T">>, <<"1", "0", "9", "9", "-", "N", "E", "C">>,
     <<"1", "0", "9", "9", "-", "M", "I", "S", "C">>, <<"1", "0", "9", "9", "-", "D", "I", "V">>,
     <<"O", "t", "h", "e", "r">>}

document_qualities == {<<"h", "i", "g", "h">>, <<"m", "e", "d", "i", "u", "m">>, <<"l", "o", "w">>}

\* the check that keeps whatever value it finds
EnumCheckKeep(data, field, allowed, default) == data

\* a value outside the allowed set is replaced by the default
EnumCheck(data, field, allowed, default) ==
    IF data[field].s \in allowed THEN data ELSE Put(data, field, Str(default))

EnumChecks(data) ==
    EnumCheck(EnumCheck(EnumCheck(data, "filing_status", filing_statuses, <<"s", "i", "n", "g", "l", "e">>),
                        "document_type", document_types, <<"O", "t", "h", "e", "r">>),
              "document_quality", document_qualities, <<"m", "e", "d", "i", "u", "m">>)

state_mapping ==
    << <<<<"c", "a", "l", "i", "f", "o", "r", "n", "i", "a">>, <<"C", "A">>>>,
       <<<<"n", "e", "w", " ", "y", "o", "r", "k">>, <<"N", "Y">>>>,
       <<<<"t", "e", "x", "a", "s">>, <<"T", "X">>>>,
       <<<<"f", "l", "o", "r", "i", "d", "a">>, <<"F", "L">>>>,
       <<<<"i", "l", "l", "i", "n", "o", "i", "s">>, <<"I", "L">>>>,
       <<<<"p", "e", "n", "n", "s", "y", "l", "v", "a", "n", "i", "a">>, <<"P", "A">>>>,
       <<<<"o", "h", "i", "o">>, <<"O", "H">>>>,
       <<<<"g", "e", "o", "r", "g", "i", "a">>, <<"G", "A">>>>,
       <<<<"n", "o", "r", "t", "h", " ", "c", "a", "r", "o", "l", "i", "n", "a">>, <<"N", "C">>>>,
       <<<<"m", "i", "c", "h", "i", "g", "a", "n">>, <<"M", "I">>>> >>

InStateMapping(name) == \E i \in 1..Len(state_mapping) : state_mapping[i][1] = name

\* a state longer than two characters is replaced by its abbreviation when its
\* lower-cased text is in the mapping, and kept otherwise
StateCheck(data) ==
    IF Len(data["state"].s) > 2 /\ InStateMapping(LowerText(data["state"].s))
    THEN Put(data, "state",
             Str(state_mapping[CHOOSE i \in 1..Len(state_mapping) :
                     state_mapping[i][1] = LowerText(data["state"].s)][2]))
    ELSE data

\* the ZIP code with three digits after the dash
ZipFormatShort(zip_clean) ==
    IF Len(zip_clean) < 5 THEN <<>>
    ELSE IF Len(zip_clean) = 5 THEN zip_clean
    ELSE IF Len(zip_clean) >= 9
    THEN SubSeq(zip_clean, 1, 5) \o <<"-">> \o SubSeq(zip_clean, 6, 8)
    ELSE zip_clean

\* the ZIP code made of the digits zip_clean
ZipFormat(zip_clean) ==
    IF Len(zip_clean) < 5 THEN <<>>
    ELSE IF Len(zip_clean) = 5 THEN zip_clean
    ELSE IF Len(zip_clean) >= 9
    THEN SubSeq(zip_clean, 1, 5) \o <<"-">> \o SubSeq(zip_clean, 6, 9)
    ELSE zip_clean

ZipCheck(data) ==
    IF data["zip_code"].s = <<>> THEN data
    ELSE Put(data, "zip_code", Str(ZipFormat(OnlyDigits(data["zip_code"].s))))

\* the steps after the money loop, which cannot raise
AfterMoney(r) ==
    IF r.exc # "" THEN r
    ELSE [exc |-> "", data |-> ZipCheck(StateCheck(EnumChecks(StringLoop(r.data, 1))))]

\* validation and conversion of a parsed JSON object: the record returned, or
\* the exception that ends the attempt
NormalizeObject(data) ==
    AfterMoney(MoneyLoop([exc |-> "", data |-> FillDefaults(data, 1)], 1))

----------------------------------------------------------------------------
(* extract_tax_data_with_ai: the entry check and one attempt of the retry loop *)

\* def extract_tax_data_with_ai(text, max_retries=3)
max_retries == 3

\* len(text.strip()) < 10
MinTextLength == 10

\* text[:10000]
MaxTextLength == 10000

\* len("... [truncated]")
TruncationMarkLength == 15

\* len(text.strip()): lead and trail count the white space at the two ends
StrippedLength(t) == IF t.lead + t.trail >= t.len THEN 0 ELSE t.len - t.lead - t.trail

\* not text or len(text.strip()) < 10
InsufficientText(t) == t.none \/ t.len = 0 \/ StrippedLength(t) < MinTextLength

\* text = text[:10000] + "... [truncated]" when len(text) > 10000
Truncate(t) ==
    IF t.len > MaxTextLength
    THEN [t EXCEPT !.len = MaxTextLength + TruncationMarkLength, !.trail = 0]
    ELSE t

\* the outcome of one attempt: error is "" and data the record returned, or
\* error is the exception raised inside the try block
Attempted(error, data) == [error |-> error, data |-> data]

FromObject(r) == IF r.exc # "" THEN Attempted(r.exc, <<>>) ELSE Attempted("", r.data)

\* the try block with a JSON array taken for an object without fields
AttemptOutcomeArrayAccepted(resp) ==
    CASE resp.kind = "raise"     -> Attempted("service error", <<>>)
      [] resp.kind = "none"      -> Attempted("Empty response from AI", <<>>)
      [] resp.kind = "empty"     -> Attempted("Empty response from AI", <<>>)
      [] resp.kind = "blank"     -> Attempted("Empty response after cleaning", <<>>)
      [] resp.kind = "fence"     -> Attempted("Empty response after cleaning", <<>>)
      [] resp.kind = "malformed" -> Attempted("Invalid JSON format", <<>>)
      [] resp.kind = "array"     -> FromObject(NormalizeObject(<<>>))
      [] resp.kind = "object"    -> FromObject(NormalizeObject(resp.data))

\* the try block on resp, what gemini_model.generate_content gave: the call
\* raised; no response or no text; text that is empty once stripped and rid of
\* its code fence; text that is not JSON; JSON that is not an object; an object
AttemptOutcome(resp) ==
    CASE resp.kind = "raise"     -> Attempted("service error", <<>>)
      [] resp.kind = "none"      -> Attempted("Empty response from AI", <<>>)
      [] resp.kind = "empty"     -> Attempted("Empty response from AI", <<>>)
      [] resp.kind = "blank"     -> Attempted("Empty response after cleaning", <<>>)
      [] resp.kind = "fence"     -> Attempted("Empty response after cleaning", <<>>)
      [] resp.kind = "malformed" -> Attempted("Invalid JSON format", <<>>)
      [] resp.kind = "array"     -> Attempted("Response is not a JSON object", <<>>)
      [] resp.kind = "object"    -> FromObject(NormalizeObject(resp.data))

\* wait_time = 2 ** attempt
RECURSIVE Pow2(_)
Pow2(e) == IF e = 0 THEN 1 ELSE 2 * Pow2(e - 1)

----------------------------------------------------------------------------
(* Inputs of calculate_taxes *)

WagesInputs ==
    {Num(Zero), Num(Dollars(60000)), Num(Mills(1000, 4)),
     Num(Dollars(MaxFieldValue)), Num(Mills(MaxFieldValue, 1)),
     Num(Dollars(-5)), Str(<<"a", "b", "c">>),
     Str(<<"4", "0", "0", "0", "0", ".", "5">>),
     Str(<<"6", "0", "0", "0", "0", "0", "0", "0">>), None}

InterestInputs == {Num(Zero), Num(Mills(250, 4)), Num(Dollars(MaxFieldValue))}

OtherInputs ==
    {Num(Zero), Num(Dollars(150000)), Num(Dollars(MaxFieldValue)),
     Num(Dollars(60000000))}

WithholdingInputs ==
    {Num(Zero), Num(Mills(0, 4)), Num(Dollars(5000)), Num(Dollars(60000000)),
     Num(Dollars(-5))}

DividendInputs == {Num(Zero), Num(Dollars(7000))}

FilingStatusInputs ==
    {Str("single"), Str("married_filing_jointly"), Str("married_filing_separately"),
     Str("head_of_household"), Str("Head_Of_Household"), Str("qualifying_widow"),
     Str("bogus"), None}

\* keys a profile may lack
OptionalKeys == {"interest_income", "federal_withholding", "filing_status"}

FullProfiles ==
    [wages : WagesInputs, interest_income : InterestInputs,
     other_income : OtherInputs, federal_withholding : WithholdingInputs,
     dividend_income : DividendInputs, filing_status : FilingStatusInputs]

BaseProfile ==
    [wages |-> Num(Dollars(60000)), interest_income |-> Num(Mills(250, 4)),
     other_income |-> Num(Zero), federal_withholding |-> Num(Dollars(5000)),
     dividend_income |-> Num(Dollars(7000)), filing_status |-> Str("single")]

EmptyDict == [kind |-> "dict", f |-> <<>>]

ProfileInputs ==
    {[kind |-> "dict", f |-> r] : r \in FullProfiles}
    \cup {[kind |-> "dict", f |-> Without(BaseProfile, drop)] : drop \in SUBSET OptionalKeys}
    \cup {EmptyDict, [kind |-> "none", f |-> <<>>], [kind |-> "list", f |-> <<>>]}

NoResult == [calculation_success |-> FALSE]

----------------------------------------------------------------------------
(* Inputs of combine_multiple_tax_documents *)

\* longest input sequence
MaxDocs == 3

\* monetary values of a record, one row per kind of content
MoneyRows ==
    << [wages |-> Num(Dollars(1000)), interest_income |-> Num(Dollars(10)),
        dividend_income |-> Num(Dollars(20)), other_income |-> Num(Dollars(30)),
        federal_withholding |-> Num(Dollars(100)), state_withholding |-> Num(Dollars(40)),
        social_security_wages |-> Num(Dollars(1000)), medicare_wages |-> Num(Dollars(1001))],
       [wages |-> Num(Dollars(2000)), interest_income |-> Num(Mills(0, 100)),
        dividend_income |-> None, other_income |-> Num(Zero),
        federal_withholding |-> Str(<<"a", "b", "c">>),
        state_withholding |-> Str(<<"1", ",", "0", "0", "0">>),
        social_security_wages |-> Str(<<"2", "0", "0", "0">>),
        medicare_wages |-> Str(<<>>)],
       [wages |-> Str(<<" ", "1", "5", "0", "0", ".", "5">>),
        interest_income |-> Num(Mills(0, 200)),
        dividend_income |-> Num(Dollars(7)), other_income |-> Str(<<"$", "5">>),
        federal_withholding |-> Num(Dollars(250)), state_withholding |-> Num(Zero),
        social_security_wages |-> Num(Dollars(-3)), medicare_wages |-> Str(<<"-", "2">>)] >>

\* a record: name, identity number, monetary row, filing status, document
\* type, quality, the two confidences, flags, review flag, payer name
Doc(name, id, row, fs, dtype, quality, cc, ec, flags, review, payer) ==
    [taxpayer_name |-> Str(name),
     ssn |-> Str(<<"111-11-1111", "222-22-2222", "333-33-3333", "444-44-4444">>[id]),
     itin |-> Str(""),
     address |-> Str(<<"1 Elm St", "2 Oak Ave", "3 Pine Rd", "4 Ash Ln">>[id]),
     city |-> Str(<<"Austin", "Boston", "Chicago", "Denver">>[id]),
     state |-> Str(<<"TX", "MA", "IL", "CO">>[id]),
     zip_code |-> Str(<<"73301", "02108", "60601", "80202">>[id]),
     filing_status |-> Str(fs),
     wages |-> MoneyRows[row].wages,
     interest_income |-> MoneyRows[row].interest_income,
     dividend_income |-> MoneyRows[row].dividend_income,
     other_income |-> MoneyRows[row].other_income,
     federal_withholding |-> MoneyRows[row].federal_withholding,
     state_withholding |-> MoneyRows[row].state_withholding,
     social_security_wages |-> MoneyRows[row].social_security_wages,
     medicare_wages |-> MoneyRows[row].medicare_wages,
     document_type |-> Str(dtype),
     document_quality |-> Str(quality),
     classification_confidence |-> Num(M(0, cc * 1000)),
     extraction_confidence |-> Num(M(0, ec * 1000)),
     validation_flags |-> flags,
     requires_review |-> review,
     payer_name |-> Str(payer),
     employer_ein |-> Str(IF payer = <<>> THEN <<>> ELSE <<"1", "2">> \o <<payer[1]>>),
     source_filename |-> Str(<<"SecureFile_1", "SecureFile_2", "SecureFile_3",
                               "SecureFile_4">>[id])]

\* the records the input sequences are drawn from
DocList ==
   <<Doc(<<"A">>, 1, 1, "single", "W-2", "medium", 90, 80, {}, FALSE, <<"A", "c">>),
     Doc(<<"A", "B">>, 2, 2, "married_filing_jointly", "1099-INT", "high", 95, 70,
         {"low_confidence"}, TRUE, <<"B", "k", " ">>),
     Doc(<<"A", "B", "C">>, 3, 3, "head_of_household", "W-2", "low", 60, 99,
         {"low_confidence", "name_mismatch"}, FALSE, <<"A", "c">>),
     Doc(<<" ", "X", "Y", " ">>, 4, 1, "single", "1099-NEC", "low", 85, 85,
         {}, FALSE, <<>>),
     Doc(<<"Z", "Z", "Z">>, 4, 2, "qualifying_widow", "W-2", "unknown", 0, 0,
         {}, FALSE, <<"A", "c">>),
     Doc(<<>>, 2, 3, "single", "W-2", "medium", 50, 50, {}, TRUE, <<>>),
     Doc(<<" ", " ">>, 3, 1, "single", "Other", "low", 40, 40, {"blank"}, FALSE, <<>>),
     Without(Doc(<<"Q">>, 1, 2, "single", "W-2", "high", 75, 75, {}, FALSE,
                 <<"Q", "r">>),
             {"taxpayer_name", "ssn", "filing_status", "wages", "document_type",
              "document_quality", "classification_confidence",
              "extraction_confidence", "validation_flags", "requires_review",
              "payer_name", "employer_ein", "source_filename"}),
     Without(Doc(<<"L", "M", "N">>, 2, 1, "married_filing_separately", "1099-DIV",
                 "medium", 99, 10, {}, FALSE, <<"D", "v">>),
             {"ssn", "address", "filing_status", "federal_withholding",
              "requires_review"}) >>

DocPool == {DocList[i] : i \in 1..Len(DocList)}

RECURSIVE SeqsUpTo(_, _)
SeqsUpTo(S, n) ==
    IF n = 0 THEN {<<>>}
    ELSE LET shorter == SeqsUpTo(S, n - 1)
         IN  shorter \cup {Append(q, x) : q \in shorter, x \in S}

NoCombine == [raised |-> "", ret |-> <<>>]

----------------------------------------------------------------------------
(* Inputs of extract_tax_data_with_ai *)

\* elif data[money_field] > 10000000
HighValueLimit == 10000000

\* the text of a document: None or a text of len characters
TextInputs ==
    {[none |-> TRUE,  len |-> 0,     lead |-> 0, trail |-> 0],
     [none |-> FALSE, len |-> 0,     lead |-> 0, trail |-> 0],
     [none |-> FALSE, len |-> 12,    lead |-> 2, trail |-> 1],
     [none |-> FALSE, len |-> 20,    lead |-> 20, trail |-> 0],
     [none |-> FALSE, len |-> 12,    lead |-> 1, trail |-> 1],
     [none |-> FALSE, len |-> 10001, lead |-> 0, trail |-> 3]}

NoText == [none |-> TRUE, len |-> 0, lead |-> 0, trail |-> 0]

\* the money fields of an AI response, one row per kind of content
RawMoneyRows ==
    << [wages |-> Num(Mills(52000, 500)),
        interest_income |-> PyInt(120),
        dividend_income |-> Num(Zero),
        other_income |-> Str(<<"$", "1", ",", "2", "3", "4", ".", "5", "0">>),
        federal_withholding |-> Str(<<" ", "4", "8", "0", "0", " ">>),
        state_withholding |-> Num(Mills(0, 4)),
        social_security_wages |-> Num(Mills(52000, 500))],
       [wages |-> Str(<<"a", "b", "c">>),
        interest_income |-> None,
        dividend_income |-> Num(Dollars(-5)),
        other_income |-> Str(<<"-", "7", ".", "2", "5">>),
        federal_withholding |-> Str(<<"$", "-", "3">>),
        state_withholding |-> PyBool(TRUE),
        social_security_wages |-> Str(<<>>),
        medicare_wages |-> Str(<<"1", " ", "0", "0", "0">>)],
       [wages |-> Num(Dollars(20000000)),
        interest_income |-> Str(<<"$", "1", "2", ",", "0", "0", "0", ",", "0", "0", "0">>),
        dividend_income |-> Num(Dollars(HighValueLimit)),
        other_income |-> Num(Mills(HighValueLimit, 1)),
        federal_withholding |-> Num(Zero),
        state_withholding |-> Num(Zero),
        social_security_wages |-> PyInt(20000000),
        medicare_wages |-> Num(Zero)],
       [wages |-> NaN,
        interest_income |-> Str(<<"n", "a", "n">>),
        dividend_income |-> Str(<<" ", "N", "a", "N", " ">>),
        other_income |-> Num(Dollars(3)),
        federal_withholding |-> Num(Zero),
        state_withholding |-> Num(Zero),
        social_security_wages |-> Num(Zero),
        medicare_wages |-> Num(Zero)],
       [wages |-> Num(Dollars(100)),
        interest_income |-> BigInt],
       <<>> >>

\* the text fields of an AI response
RawTextRows ==
    << [taxpayer_name |-> Str(<<" ", "J", "a", "n", "e", " ", "D", "o", "e", " ">>),
        ssn |-> Str(<<"1", "2", "3", "-", "4", "5", "-", "6", "7", "8", "9">>),
        itin |-> Str(<<>>),
        address |-> Str(<<"1", " ", "E", "l", "m", " ", "S", "t">>),
        city |-> Str(<<"A", "u", "s", "t", "i", "n">>),
        state |-> Str(<<"T", "X">>),
        zip_code |-> Str(<<"7", "3", "3", "0", "1">>),
        employer_ein |-> Str(<<"1", "2", "-", "3", "4", "5", "6", "7", "8", "9">>),
        payer_name |-> Str(<<"A", "c", "m", "e">>)],
       [taxpayer_name |-> Str(<<"J", "o", "h", "n", " ", "R", "o", "e">>),
        ssn |-> Str(<<"1", "2", "3", "-", "4", "5", "-", "6", "7", "8", "9">>),
        itin |-> Str(<<"9", "1", "2", "-", "3", "4", "-", "5", "6", "7", "8">>),
        address |-> Str(<<"2", " ", "O", "a", "k", " ", "A", "v", "e">>),
        city |-> Str(<<"D", "a", "l", "l", "a", "s">>),
        state |-> Str(<<"T", "e", "x", "a", "s">>),
        zip_code |-> Str(<<"7", "3", "3", "0", "1", "-", "1", "2", "3", "4">>),
        employer_ein |-> Str(<<>>),
        payer_name |-> Str(<<" ", "B", "a", "n", "k", " ">>)],
       [taxpayer_name |-> None,
        itin |-> Str(<<" ", "9", "1", "2", "-", "3", "4", "-", "5", "6", "7", "8", " ">>),
        address |-> Str(<<>>),
        city |-> None,
        state |-> Str(<<" ", "n", "e", "w", " ", "y", "o", "r", "k", " ">>),
        zip_code |-> PyInt(2108),
        employer_ein |-> PyInt(123456789),
        payer_name |-> PyBool(FALSE)],
       [taxpayer_name |-> Str(<<"A", " ", "B">>),
        ssn |-> Str(<<" ">>),
        itin |-> Str(<<" ">>),
        address |-> Str(<<"4", " ", "A", "s", "h", " ", "L", "n">>),
        city |-> Str(<<"S", "a", "n", " ", "J", "u", "a", "n">>),
        state |-> Str(<<"P", "u", "e", "r", "t", "o", " ", "R", "i", "c", "o">>),
        zip_code |-> Str(<<"1", "2", "3", "4", "5", "6">>),
        employer_ein |-> Str(<<"9", "8", "-", "7", "6", "5", "4", "3", "2", "1">>),
        payer_name |-> Str(<<"C", "o">>)],
       [taxpayer_name |-> Str(<<>>),
        ssn |-> Str(<<"9", "8", "7", "-", "6", "5", "-", "4", "3", "2", "1">>),
        itin |-> None,
        address |-> Str(<<"5", " ", "F", "i", "r", " ", "C", "t">>),
        city |-> Str(<<"M", "i", "a", "m", "i">>),
        state |-> Str(<<>>),
        zip_code |-> Str(<<"1", "2", "3", "4">>),
        employer_ein |-> Str(<<>>),
        payer_name |-> Str(<<>>)],
       [taxpayer_name |-> Str(<<"Q">>),
        ssn |-> Str(<<>>),
        itin |-> Str(<<>>),
        state |-> Str(<<"N", "O", "R", "T", "H", " ", "C", "A", "R", "O", "L", "I", "N", "A">>),
        zip_code |-> Str(<<"1", "2", "3", "4", "5", " ", "6", "7", "8", "9", " ", "0", "0">>),
        payer_name |-> Str(<<"P">>)],
       [taxpayer_name |-> Str(<<"Z">>),
        ssn |-> Str(<<>>),
        itin |-> Str(<<>>),
        state |-> Str(<<"c", "a">>),
        zip_code |-> Num(Dollars(73301))],
       <<>> >>

\* the enumerated fields, scores and flags of an AI response
RawEnumRows ==
    << [document_type |-> Str(<<"W", "-", "2">>),
        document_quality |-> Str(<<"h", "i", "g", "h">>),
        filing_status |-> Str(<<"m", "a", "r", "r", "i", "e", "d", "_", "f", "i", "l", "i", "n", "g", "_", "j", "o", "i", "n", "t", "l", "y">>),
        classification_confidence |-> Num(M(0, 95000)),
        extraction_confidence |-> Num(M(0, 90000)),
        validation_flags |-> <<>>,
        requires_review |-> FALSE],
       [document_type |-> Str(<<" ", "1", "0", "9", "9", "-", "I", "N", "T", " ">>),
        document_quality |-> Str(<<" ", "l", "o", "w", " ">>),
        filing_status |-> Str(<<" ", "s", "i", "n", "g", "l", "e", " ">>),
        classification_confidence |-> Num(M(0, 60000)),
        extraction_confidence |-> Num(M(0, 50000)),
        validation_flags |-> <<"low_confidence">>,
        requires_review |-> TRUE],
       [document_type |-> Str(<<"w", "-", "2">>),
        document_quality |-> Str(<<"H", "I", "G", "H">>),
        filing_status |-> Str(<<"S", "i", "n", "g", "l", "e">>),
        classification_confidence |-> Num(M(0, 80000)),
        extraction_confidence |-> Num(M(0, 80000)),
        validation_flags |-> <<>>,
        requires_review |-> FALSE],
       [document_type |-> None,
        document_quality |-> None,
        filing_status |-> None,
        validation_flags |-> <<>>,
        requires_review |-> FALSE],
       [document_type |-> Str(<<"1", "0", "9", "9", "-", "M", "I", "S", "C">>),
        document_quality |-> Str(<<"m", "e", "d", "i", "u", "m">>),
        filing_status |-> Str(<<"q", "u", "a", "l", "i", "f", "y", "i", "n", "g", "_", "w", "i", "d", "o", "w">>),
        classification_confidence |-> PyInt(1),
        extraction_confidence |-> Num(M(0, 99000)),
        validation_flags |-> <<"name_mismatch">>,
        requires_review |-> FALSE],
       <<>> >>

\* the JSON object {}
EmptyObject == <<>>

\* the JSON objects the service may answer with: the empty object, and every
\* money row with every text row, the enum rows taken in turn
RawObjects ==
    {EmptyObject} \cup
    {RawMoneyRows[i] @@ RawTextRows[j] @@ RawEnumRows[((i + j) % Len(RawEnumRows)) + 1] :
        i \in 1..Len(RawMoneyRows), j \in 1..Len(RawTextRows)}

Response(kind, data) == [kind |-> kind, data |-> data]

\* what one call of the service may give
Responses ==
    {Response(kind, <<>>) :
        kind \in {"raise", "none", "empty", "blank", "fence", "malformed", "array"}}
    \cup {Response("object", data) : data \in RawObjects}

NoResponse == Response("none", <<>>)

Extracted(raised, message, last, data) == [raised |-> raised, message |-> message, last |-> last, data |-> data]

NoExtract == Extracted("", "", "", <<>>)

----------------------------------------------------------------------------
(* Inputs of calculate_federal_tax *)

BracketLimits == {tax_brackets_single[i].limit.d : i \in 1..6}

TaxableIncomes ==
    {Dollars(-1), Zero, Mills(0, 1), Mills(0, 40), Dollars(1), Dollars(50000),
     Mills(12345, 678), Mills(99985, 400), Dollars(1000000),
     Dollars(99985400), Dollars(MaxTaxableIncome),
     Mills(MaxTaxableIncome, 1), Dollars(149985400)}
    \cup {Dollars(l) : l \in BracketLimits}
    \cup {Mills(l - 1, 999) : l \in BracketLimits}
    \cup {Mills(l, 1) : l \in BracketLimits}

----------------------------------------------------------------------------
(* upload_file (src/app.py): the uploaded files and their validation *)

ALLOWED_EXTENSIONS ==
    {<<"p", "d", "f">>, <<"p", "n", "g">>, <<"j", "p", "g">>, <<"j", "p", "e", "g">>}

ALLOWED_MIME_TYPES == {"application/pdf", "image/png", "image/jpeg", "image/jpg"}

\* MAX_FILE_SIZES.get(content_type, 16 * 1024 * 1024)
MAX_FILE_SIZES(content_type) ==
    IF content_type = "application/pdf" THEN 16 * 1024 * 1024
    ELSE IF content_type \in ALLOWED_MIME_TYPES THEN 10 * 1024 * 1024
    ELSE 16 * 1024 * 1024

suspicious_chars ==
    {<<".", ".">>, <<"/">>, <<"\\">>, <<"<">>, <<">">>, <<":">>, <<"\"">>, <<"|">>,
     <<"?">>, <<"*">>}

\* len(file.filename) > 255
MaxFilenameLength == 255

\* sub in s
Contains(s, sub) ==
    \E i \in 1..Len(s) :
        /\ i + Len(sub) - 1 <= Len(s)
        /\ SubSeq(s, i, i + Len(sub) - 1) = sub

\* s.rsplit('.', 1)[1] for an s that has a dot
AfterLastDot(s) ==
    SubSeq(s, 1 + (CHOOSE i \in 1..Len(s) :
                       /\ s[i] = "."
                       /\ \A j \in (i + 1)..Len(s) : s[j] # "."), Len(s))

\* the returned pair (is_valid, validation_message)
validate_file_comprehensive(file) ==
    IF file.filename = <<>>
    THEN [ok |-> FALSE, message |-> "No file provided"]
    ELSE IF Len(file.filename) > MaxFilenameLength
    THEN [ok |-> FALSE, message |-> "Filename too long (max 255 characters)"]
    ELSE IF \E c \in suspicious_chars : Contains(file.filename, c)
    THEN [ok |-> FALSE, message |-> "Filename contains invalid characters"]
    ELSE IF ~Contains(file.filename, <<".">>)
    THEN [ok |-> FALSE, message |-> "File must have an extension"]
    ELSE IF LowerText(AfterLastDot(file.filename)) \notin ALLOWED_EXTENSIONS
    THEN [ok |-> FALSE, message |-> "Invalid file type"]
    ELSE IF file.content_type \notin ALLOWED_MIME_TYPES
    THEN [ok |-> FALSE, message |-> "Invalid file format"]
    ELSE IF file.content_length # 0
            /\ file.content_length > MAX_FILE_SIZES(file.content_type)
    THEN [ok |-> FALSE, message |-> "File too large"]
    ELSE [ok |-> TRUE, message |-> "Valid file"]

\* f"SecureFile_{i}"
SecureFileNames ==
    <<"SecureFile_1", "SecureFile_2", "SecureFile_3", "SecureFile_4", "SecureFile_5",
      "SecureFile_6", "SecureFile_7", "SecureFile_8", "SecureFile_9", "SecureFile_10">>

\* what one pass of the per-file loop appends: to all_tax_data (records) and
\* to processing_errors (errors), for the i-th file of the request
Appended(records, errors) == [records |-> records, errors |-> errors]

FileError(i, message) == Appended(<<>>, <<[file |-> i, message |-> message]>>)

\* the pass with a failed AI extraction skipped without an error entry
AfterFileValidationSilent(file, i, v) ==
    IF ~v.ok THEN FileError(i, v.message)
    ELSE IF file.stream # "ok" THEN FileError(i, "Failed to process in memory")
    ELSE IF file.content_type # "application/pdf"
    THEN FileError(i, "Only PDF files supported currently")
    ELSE IF file.pdf # "text" THEN FileError(i, "Failed to extract text")
    ELSE IF file.ai.raised THEN Appended(<<>>, <<>>)
    ELSE Appended(<<Put(file.ai.data, "source_filename", Str(SecureFileNames[i]))>>,
                  <<>>)

\* the part of the pass after validate_file_comprehensive returned v
AfterFileValidation(file, i, v) ==
    IF ~v.ok THEN FileError(i, v.message)
    ELSE IF file.stream # "ok" THEN FileError(i, "Failed to process in memory")
    ELSE IF file.content_type # "application/pdf"
    THEN FileError(i, "Only PDF files supported currently")
    ELSE IF file.pdf # "text" THEN FileError(i, "Failed to extract text")
    ELSE IF file.ai.raised THEN FileError(i, "AI analysis failed")
    ELSE Appended(<<Put(file.ai.data, "source_filename", Str(SecureFileNames[i]))>>,
                  <<>>)

\* one pass of the per-file loop
ProcessFile(file, i) ==
    IF file.filename = <<>> THEN Appended(<<>>, <<>>)
    ELSE AfterFileValidation(file, i, validate_file_comprehensive(file))

----------------------------------------------------------------------------
(* upload_file (src/app.py): the request checks and the steps after the loop *)

\* if len(files) > 10
FileLimit == 10

\* a response: its status code and the text of its error field ("" if none)
Reply(code, error) == [code |-> code, error |-> error]

NoReply == Reply(0, "")

\* the checks before the per-file loop: the error text, "" when they pass
RequestCheck(request) ==
    IF ~request.part THEN "No files provided in request"
    ELSE IF \A i \in 1..Len(request.files) : request.files[i].filename = <<>>
    THEN "No files selected"
    ELSE IF Len(request.files) > FileLimit THEN "Maximum 10 files allowed per upload"
    ELSE ""

\* the keys of result = {**combined_tax_data, **calculations} after the SSN
\* masking and the processing summary
ResultKeys(combined, calcs, records, errors) ==
    DOMAIN combined \cup DOMAIN calcs
    \cup (IF "ssn" \in DOMAIN combined \cup DOMAIN calcs
          THEN {"ssn_masked", "ssn_original"} ELSE {})
    \cup (IF Len(records) > 1 THEN {"processing_summary"} ELSE {})
    \cup (IF Len(records) > 1 /\ errors # <<>> THEN {"processing_warnings"} ELSE {})

required_result_fields == {"total_income", "federal_tax", "refund_or_owed"}

\* the calculation step and the merge, r being what calculate_taxes gave for
\* the combined profile: the error response, or none and the step goes on
AfterCalculation(r, records, errors) ==
    IF "error" \in DOMAIN r.ret THEN Reply(400, "Tax calculation failed")
    ELSE IF ~(required_result_fields
                \subseteq ResultKeys(r.data.f, r.ret, records, errors))
    THEN Reply(500, "Incomplete calculation results")
    ELSE NoReply

\* combined_tax_data['ssn'] = result['ssn_original'], the SSN the merged
\* result had before it was masked
RestoreSsn(combined, calcs) ==
    IF "ssn" \in DOMAIN combined \cup DOMAIN calcs
    THEN Put(combined, "ssn", IF "ssn" \in DOMAIN calcs THEN calcs["ssn"]
                               ELSE combined["ssn"])
    ELSE combined

\* app.config.get(key) of a key never stored
NoCache == [kind |-> "none", f |-> <<>>]

Cached(d) == [kind |-> "dict", f |-> d]

\* validate_session_data on the two values it read
required_tax_fields == {"taxpayer_name", "wages", "federal_withholding"}

required_calc_fields == {"total_income", "federal_tax", "refund_or_owed"}

validate_session_data(td, calcs) ==
    IF Falsy(td) \/ Falsy(calcs)
    THEN "No tax data found. Please upload and process a document first."
    ELSE IF td.kind # "dict" \/ calcs.kind # "dict"
    THEN "Invalid tax data format. Please re-upload your document."
    ELSE IF ~(required_tax_fields \subseteq DOMAIN td.f)
    THEN "Missing required tax information"
    ELSE IF ~(required_calc_fields \subseteq DOMAIN calcs.f)
    THEN "Missing required calculation"
    ELSE ""

----------------------------------------------------------------------------
(* Inputs of upload_file *)

\* longest batch of the batches enumerated in full
MaxFiles == 2

\* number of upload requests a run serves
MaxRequests == 2

\* records extract_tax_data_with_ai returns
UploadRecords ==
    <<DocList[1],
      Doc(<<"A", "B">>, 2, 1, "married_filing_jointly", "1099-INT", "high", 95, 70,
          {"low_confidence"}, TRUE, <<"B", "k">>)>>

\* what extract_tax_data_with_ai does for the text of a file
AiRaises == [raised |-> TRUE, data |-> <<>>]

AiReturns(d) == [raised |-> FALSE, data |-> d]

\* an uploaded file: stream is "ok" when it can be read, pdf is "text" when
\* the document has pages with text
File(filename, content_type, content_length, stream, pdf, ai) ==
    [filename |-> filename, content_type |-> content_type,
     content_length |-> content_length, stream |-> stream, pdf |-> pdf, ai |-> ai]

PdfName == <<"w", "2", ".", "p", "d", "f">>

GoodFile(k) == File(PdfName, "application/pdf", 0, "ok", "text", AiReturns(UploadRecords[k]))

\* the files the batches are made of: a file without a name, a file with a
\* bad name, a file whose AI extraction fails, and two good files
FilePool ==
    {File(<<>>, "application/pdf", 0, "ok", "text", AiReturns(UploadRecords[1])),
     File(<<"a", "/", "b", ".", "p", "d", "f">>, "application/pdf", 0, "ok", "text",
          AiReturns(UploadRecords[1])),
     File(PdfName, "application/pdf", 0, "ok", "text", AiRaises),
     GoodFile(1),
     GoodFile(2)}

\* files that fail in the other ways: the other checks of
\* validate_file_comprehensive, an image, an unreadable stream, a PDF
\* without text
RejectedFiles ==
    {File(<<"w", "2">>, "application/pdf", 0, "ok", "text", AiReturns(UploadRecords[1])),
     File(<<"w", ".", ".", "p", "d", "f">>, "application/pdf", 0, "ok", "text",
          AiReturns(UploadRecords[1])),
     File(<<"w", ".", "e", "x", "e">>, "application/pdf", 0, "ok", "text",
          AiReturns(UploadRecords[1])),
     File(PdfName, "text/plain", 0, "ok", "text", AiReturns(UploadRecords[1])),
     File(PdfName, "application/pdf", 16 * 1024 * 1024 + 1, "ok", "text",
          AiReturns(UploadRecords[1])),
     File(<<"s", ".", "P", "N", "G">>, "image/png", 2048, "ok", "text", AiRaises),
     File(PdfName, "application/pdf", 0, "unreadable", "text", AiRaises),
     File(PdfName, "application/pdf", 4096, "ok", "no_text", AiRaises)}

\* a request: part is 'file' in request.files, files is getlist('file')
Request(part, files) == [part |-> part, files |-> files]

TooManyFiles == [i \in 1..(FileLimit + 1) |-> GoodFile(1)]

\* the requests of the sequential specification
UploadRequests ==
    {Request(FALSE, <<>>), Request(TRUE, TooManyFiles)}
    \cup {Request(TRUE, b) : b \in SeqsUpTo(FilePool, MaxFiles)}
    \cup {Request(TRUE, <<f>>) : f \in RejectedFiles}
    \cup {Request(TRUE, <<f, GoodFile(2)>>) : f \in RejectedFiles}

\* the requests of the threaded specification
ServeRequests ==
    {Request(FALSE, <<>>), Request(TRUE, <<GoodFile(1)>>),
     Request(TRUE, <<GoodFile(2)>>),
     Request(TRUE, <<File(PdfName, "application/pdf", 0, "ok", "text", AiRaises)>>)}

\* the request handlers that can run at the same time
Workers == {1, 2}

\* the locals of an upload_file call: id numbers the request, before is the
\* cache as the request found it, log the steps the request has taken
Locals(pc, id, request, i, records, errors, combined, calcs, reply, before, log) ==
    [pc |-> pc, id |-> id, request |-> request, i |-> i, all_tax_data |-> records,
     processing_errors |-> errors, combined_tax_data |-> combined,
     calculations |-> calcs, response |-> reply, before |-> before, log |-> log]

NoUpload ==
    Locals("idle", 0, Request(FALSE, <<>>), 0, <<>>, <<>>, <<>>, NoResult, NoReply,
           <<NoCache, NoCache>>, <<>>)

\* a step of the log
Step(op, n) == [op |-> op, n |-> n]

\* the locals of a form generation request
FormLocals(pc, route, seen, td, calcs, tax_by, calc_by, reply) ==
    [pc |-> pc, route |-> route, seen |-> seen, tax_data |-> td,
     calculations |-> calcs, tax_by |-> tax_by, calc_by |-> calc_by,
     response |-> reply]

NoForm == FormLocals("idle", "", NoCache, NoCache, NoCache, 0, 0, NoReply)

form_routes == {"generate_simple_form", "generate_irs_form"}

----------------------------------------------------------------------------
(* Specification of calculate_federal_tax as called twice in a row *)

ExtractIdle ==
    /\ text = NoText
    /\ attempt = 0
    /\ service_calls = 0
    /\ response = NoResponse
    /\ outcomes = <<>>
    /\ last_error = ""
    /\ waits = <<>>
    /\ extract_ret = NoExtract
    /\ extract_pc = "idle"

UploadIdle ==
    /\ upload = [t \in Workers |-> NoUpload]
    /\ served = 0
    /\ current_tax_data = NoCache
    /\ current_calculations = NoCache
    /\ tax_source = 0
    /\ calc_source = 0
    /\ form = NoForm

CombineIdle ==
    /\ all_tax_data = <<>>
    /\ combine_ret = NoCombine
    /\ combine_pc = "idle"

CalcIdle ==
    /\ profile = EmptyDict
    /\ tax_data = EmptyDict
    /\ calculations = NoResult
    /\ calc_pc = "idle"

InitTax ==
    /\ UploadIdle
    /\ CalcIdle
    /\ CombineIdle
    /\ ExtractIdle
    /\ fed_calls = 0
    /\ fed_arg = Zero
    /\ fed_ret = Zero
    /\ fed_prev_arg = Zero
    /\ fed_prev_ret = Zero

FederalTaxCall ==
    \E t \in TaxableIncomes :
        /\ fed_calls' = IF fed_calls < 2 THEN fed_calls + 1 ELSE 2
        /\ fed_prev_arg' = fed_arg
        /\ fed_prev_ret' = fed_ret
        /\ fed_arg' = t
        /\ fed_ret' = calculate_federal_tax(t)
        /\ UNCHANGED <<calcVars, combineVars, extractVars, uploadVars>>

NextTax == FederalTaxCall

SpecTax == InitTax /\ [][NextTax]_vars

----------------------------------------------------------------------------
(* Specification of one calculate_taxes call on a profile *)

FedIdle ==
    /\ fed_calls = 0
    /\ fed_arg = Zero
    /\ fed_ret = Zero
    /\ fed_prev_arg = Zero
    /\ fed_prev_ret = Zero

InitCalc ==
    /\ UploadIdle
    /\ FedIdle
    /\ CombineIdle
    /\ ExtractIdle
    /\ profile \in ProfileInputs
    /\ tax_data = profile
    /\ calculations = NoResult
    /\ calc_pc = "ready"

CalculateTaxes ==
    /\ calc_pc = "ready"
    /\ \E r \in {calculate_taxes(tax_data)} :
           /\ tax_data' = r.data
           /\ calculations' = r.ret
    /\ calc_pc' = "done"
    /\ UNCHANGED <<profile, fedVars, combineVars, extractVars, uploadVars>>

NextCalc == CalculateTaxes

SpecCalc == InitCalc /\ [][NextCalc]_vars

----------------------------------------------------------------------------
(* Specification of one combine_multiple_tax_documents call *)

InitCombine ==
    /\ UploadIdle
    /\ FedIdle
    /\ CalcIdle
    /\ ExtractIdle
    /\ all_tax_data \in SeqsUpTo(DocPool, MaxDocs)
    /\ combine_ret = NoCombine
    /\ combine_pc = "ready"

Combine ==
    /\ combine_pc = "ready"
    /\ combine_ret' = combine_multiple_tax_documents(all_tax_data)
    /\ combine_pc' = "done"
    /\ UNCHANGED <<all_tax_data, fedVars, calcVars, extractVars, uploadVars>>

NextCombine == Combine

SpecCombine == InitCombine /\ [][NextCombine]_vars

----------------------------------------------------------------------------
(* Specification of one extract_tax_data_with_ai call: the entry check, then *)
(* the retry loop, one step per service call and one per sleep              *)

InitExtract ==
    /\ UploadIdle
    /\ FedIdle
    /\ CalcIdle
    /\ CombineIdle
    /\ text \in TextInputs
    /\ attempt = 0
    /\ service_calls = 0
    /\ response = NoResponse
    /\ outcomes = <<>>
    /\ last_error = ""
    /\ waits = <<>>
    /\ extract_ret = NoExtract
    /\ extract_pc = "start"

\* the entry check and the truncation of the text
ExtractStart ==
    /\ extract_pc = "start"
    /\ IF InsufficientText(text)
       THEN /\ extract_ret' = Extracted("ValueError",
                                        "Insufficient text content for AI processing",
                                        "", <<>>)
            /\ extract_pc' = "done"
            /\ UNCHANGED text
       ELSE /\ text' = Truncate(text)
            /\ extract_pc' = "call"
            /\ UNCHANGED extract_ret
    /\ UNCHANGED <<attempt, service_calls, response, outcomes, last_error, waits>>
    /\ UNCHANGED <<fedVars, calcVars, combineVars, uploadVars>>

\* one pass of the try block: the service call, the validation of its answer,
\* the except clause, and the raise that follows the last failed pass
ExtractAttempt ==
    /\ extract_pc = "call"
    /\ attempt < max_retries
    /\ \E resp \in Responses : \E o \in {AttemptOutcome(resp)} :
           /\ response' = resp
           /\ service_calls' = service_calls + 1
           /\ outcomes' = Append(outcomes, o.error)
           /\ IF o.error = ""
              THEN /\ extract_ret' = Extracted("", "", "", o.data)
                   /\ extract_pc' = "done"
                   /\ UNCHANGED last_error
              ELSE /\ last_error' = o.error
                   /\ IF attempt < max_retries - 1
                      THEN /\ extract_pc' = "sleep"
                           /\ UNCHANGED extract_ret
                      ELSE /\ extract_ret' = Extracted("ValueError",
                                                       "AI extraction failed",
                                                       o.error, <<>>)
                           /\ extract_pc' = "done"
    /\ UNCHANGED <<text, attempt, waits>>
    /\ UNCHANGED <<fedVars, calcVars, combineVars, uploadVars>>

\* time.sleep(2 ** attempt), then the next pass of the loop
ExtractSleep ==
    /\ extract_pc = "sleep"
    /\ waits' = Append(waits, Pow2(attempt))
    /\ attempt' = attempt + 1
    /\ extract_pc' = "call"
    /\ UNCHANGED <<text, service_calls, response, outcomes, last_error, extract_ret>>
    /\ UNCHANGED <<fedVars, calcVars, combineVars, uploadVars>>

NextExtract == ExtractStart \/ ExtractAttempt \/ ExtractSleep

SpecExtract == InitExtract /\ [][NextExtract]_vars

----------------------------------------------------------------------------
(* Specification of upload_file: one step for the request checks, one per   *)
(* pass of the per-file loop, one for the combination, one for the          *)
(* calculation and the merge, and one per assignment to the cache           *)

\* the locals of a request that ended with the response reply
Ended(l, reply) == [l EXCEPT !.pc = "done", !.response = reply]

InitUpload ==
    /\ FedIdle
    /\ CalcIdle
    /\ CombineIdle
    /\ ExtractIdle
    /\ UploadIdle

\* the request checks with the cache emptied when a request arrives
UploadStartResetsCache(t, requests) ==
    /\ upload[t].pc \in {"idle", "done"}
    /\ served < MaxRequests
    /\ served' = served + 1
    /\ \E request \in requests : \E e \in {RequestCheck(request)} :
           upload' = [upload EXCEPT ![t] =
               Locals(IF e = "" THEN "files" ELSE "done", served + 1, request, 0,
                      <<>>, <<>>, <<>>, NoResult,
                      IF e = "" THEN NoReply ELSE Reply(400, e),
                      <<current_tax_data, current_calculations>>, <<>>)]
    /\ current_tax_data' = NoCache
    /\ current_calculations' = NoCache
    /\ UNCHANGED <<tax_source, calc_source, form>>
    /\ UNCHANGED <<fedVars, calcVars, combineVars, extractVars>>

\* the request arrives and is checked
UploadStart(t, requests) ==
    /\ upload[t].pc \in {"idle", "done"}
    /\ served < MaxRequests
    /\ served' = served + 1
    /\ \E request \in requests : \E e \in {RequestCheck(request)} :
           upload' = [upload EXCEPT ![t] =
               Locals(IF e = "" THEN "files" ELSE "done", served + 1, request, 0,
                      <<>>, <<>>, <<>>, NoResult,
                      IF e = "" THEN NoReply ELSE Reply(400, e),
                      <<current_tax_data, current_calculations>>, <<>>)]
    /\ UNCHANGED <<cacheVars, form>>
    /\ UNCHANGED <<fedVars, calcVars, combineVars, extractVars>>

\* one pass of the per-file loop
UploadFile(t) ==
    /\ upload[t].pc = "files"
    /\ upload[t].i < Len(upload[t].request.files)
    /\ \E a \in {ProcessFile(upload[t].request.files[upload[t].i + 1],
                             upload[t].i + 1)} :
           upload' = [upload EXCEPT ![t].i = @ + 1,
                                    ![t].all_tax_data = @ \o a.records,
                                    ![t].processing_errors = @ \o a.errors,
                                    ![t].log = Append(@, Step("file", upload[t].i + 1))]
    /\ UNCHANGED <<served, cacheVars, form>>
    /\ UNCHANGED <<fedVars, calcVars, combineVars, extractVars>>

\* the combination made as soon as one file was attempted
UploadCombineEarly(t) ==
    /\ upload[t].pc = "files"
    /\ upload[t].i >= 1
    /\ IF upload[t].all_tax_data = <<>>
       THEN upload' = [upload EXCEPT ![t] =
                Ended(@, Reply(400, "No files could be processed successfully."))]
       ELSE \E c \in {combine_multiple_tax_documents(upload[t].all_tax_data)} :
                upload' = [upload EXCEPT
                    ![t].combined_tax_data = c.ret,
                    ![t].pc = IF c.raised = "" THEN "calculate" ELSE "done",
                    ![t].response = IF c.raised = "" THEN NoReply
                                    ELSE Reply(500, "Failed to combine tax documents"),
                    ![t].log = Append(@, Step("combine", Len(upload[t].all_tax_data)))]
    /\ UNCHANGED <<served, cacheVars, form>>
    /\ UNCHANGED <<fedVars, calcVars, combineVars, extractVars>>

\* the check for an empty all_tax_data and the combination
UploadCombine(t) ==
    /\ upload[t].pc = "files"
    /\ upload[t].i = Len(upload[t].request.files)
    /\ IF upload[t].all_tax_data = <<>>
       THEN upload' = [upload EXCEPT ![t] =
                Ended(@, Reply(400, "No files could be processed successfully."))]
       ELSE \E c \in {combine_multiple_tax_documents(upload[t].all_tax_data)} :
                upload' = [upload EXCEPT
                    ![t].combined_tax_data = c.ret,
                    ![t].pc = IF c.raised = "" THEN "calculate" ELSE "done",
                    ![t].response = IF c.raised = "" THEN NoReply
                                    ELSE Reply(500, "Failed to combine tax documents"),
                    ![t].log = Append(@, Step("combine", Len(upload[t].all_tax_data)))]
    /\ UNCHANGED <<served, cacheVars, form>>
    /\ UNCHANGED <<fedVars, calcVars, combineVars, extractVars>>

\* the calculation, which works on combined_tax_data in place, and the merge
UploadCalculate(t) ==
    /\ upload[t].pc = "calculate"
    /\ IF DOMAIN upload[t].combined_tax_data = {}
       THEN upload' = [upload EXCEPT ![t] = Ended(@, Reply(500, "Tax calculation failed"))]
       ELSE \E r \in {calculate_taxes(Cached(upload[t].combined_tax_data))} :
            \E e \in {AfterCalculation(r, upload[t].all_tax_data,
                                       upload[t].processing_errors)} :
                upload' = [upload EXCEPT
                    ![t].combined_tax_data = r.data.f,
                    ![t].calculations = r.ret,
                    ![t].pc = IF e = NoReply THEN "store_tax" ELSE "done",
                    ![t].response = e,
                    ![t].log = Append(@, Step("calculate", 0))]
    /\ UNCHANGED <<served, cacheVars, form>>
    /\ UNCHANGED <<fedVars, calcVars, combineVars, extractVars>>

\* app.config['current_tax_data'] = combined_tax_data
UploadStoreTax(t) ==
    /\ upload[t].pc = "store_tax"
    /\ \E d \in {RestoreSsn(upload[t].combined_tax_data, upload[t].calculations)} :
           /\ current_tax_data' = Cached(d)
           /\ upload' = [upload EXCEPT ![t].combined_tax_data = d,
                                       ![t].pc = "store_calc",
                                       ![t].log = Append(@, Step("store_tax", 0))]
    /\ tax_source' = upload[t].id
    /\ UNCHANGED <<served, current_calculations, calc_source, form>>
    /\ UNCHANGED <<fedVars, calcVars, combineVars, extractVars>>

\* app.config['current_calculations'] = calculations, and the response
UploadStoreCalc(t) ==
    /\ upload[t].pc = "store_calc"
    /\ current_calculations' = Cached(upload[t].calculations)
    /\ calc_source' = upload[t].id
    /\ upload' = [upload EXCEPT ![t].pc = "done",
                                ![t].response = Reply(200, ""),
                                ![t].log = Append(@, Step("store_calc", 0))]
    /\ UNCHANGED <<served, current_tax_data, tax_source, form>>
    /\ UNCHANGED <<fedVars, calcVars, combineVars, extractVars>>

\* one request after another, as a single client sends them
NextUpload ==
    \/ UploadStart(1, UploadRequests)
    \/ UploadFile(1)
    \/ UploadCombine(1)
    \/ UploadCalculate(1)
    \/ UploadStoreTax(1)
    \/ UploadStoreCalc(1)

SpecUpload == InitUpload /\ [][NextUpload]_vars

----------------------------------------------------------------------------
(* Specification of the threaded server (app.run(threaded=True)): upload    *)
(* requests handled at the same time and a form generation request, one     *)
(* step per access to app.config                                            *)

\* the request arrives at either route; validate_session_data reads
\* current_tax_data
FormReadSession ==
    /\ form.pc = "idle"
    /\ \E route \in form_routes :
           form' = FormLocals("validate", route, current_tax_data, NoCache, NoCache,
                              0, 0, NoReply)
    /\ UNCHANGED <<upload, served, cacheVars>>
    /\ UNCHANGED <<fedVars, calcVars, combineVars, extractVars>>

\* validate_session_data reads current_calculations and checks the two values
FormValidate ==
    /\ form.pc = "validate"
    /\ \E e \in {validate_session_data(form.seen, current_calculations)} :
           form' = [form EXCEPT !.pc = IF e = "" THEN "read_tax" ELSE "done",
                                !.response = IF e = "" THEN NoReply ELSE Reply(400, e)]
    /\ UNCHANGED <<upload, served, cacheVars>>
    /\ UNCHANGED <<fedVars, calcVars, combineVars, extractVars>>

\* tax_data = app.config.get('current_tax_data')
FormReadTax ==
    /\ form.pc = "read_tax"
    /\ form' = [form EXCEPT !.pc = "read_calc",
                            !.tax_data = current_tax_data,
                            !.tax_by = tax_source]
    /\ UNCHANGED <<upload, served, cacheVars>>
    /\ UNCHANGED <<fedVars, calcVars, combineVars, extractVars>>

\* calculations = app.config.get('current_calculations')
FormReadCalc ==
    /\ form.pc = "read_calc"
    /\ form' = [form EXCEPT !.pc = "generate",
                            !.calculations = current_calculations,
                            !.calc_by = calc_source]
    /\ UNCHANGED <<upload, served, cacheVars>>
    /\ UNCHANGED <<fedVars, calcVars, combineVars, extractVars>>

\* the form is generated from the two values read, or the generation fails
FormGenerate ==
    /\ form.pc = "generate"
    /\ \E generated \in BOOLEAN :
           form' = [form EXCEPT !.pc = "done",
                                !.response = IF generated THEN Reply(200, "")
                                             ELSE Reply(500, "Failed to generate form")]
    /\ UNCHANGED <<upload, served, cacheVars>>
    /\ UNCHANGED <<fedVars, calcVars, combineVars, extractVars>>

NextServe ==
    \/ \E t \in Workers : UploadStart(t, ServeRequests)
    \/ \E t \in Workers : UploadFile(t)
    \/ \E t \in Workers : UploadCombine(t)
    \/ \E t \in Workers : UploadCalculate(t)
    \/ \E t \in Workers : UploadStoreTax(t)
    \/ \E t \in Workers : UploadStoreCalc(t)
    \/ FormReadSession
    \/ FormValidate
    \/ FormReadTax
    \/ FormReadCalc
    \/ FormGenerate

SpecServe == InitUpload /\ [][NextServe]_vars

----------------------------------------------------------------------------
(* Claims about combine_multiple_tax_documents, checked under SpecCombine *)

Combined == combine_pc = "done"

Returned == combine_ret.raised = ""

\* the record whose trimmed name is the longest of all, the earliest such
LongestIndex(all) ==
    CHOOSE i \in 1..Len(all) :
        /\ \A j \in 1..Len(all) : NameLen(all[j]) <= NameLen(all[i])
        /\ \A j \in 1..(i - 1) : NameLen(all[j]) < NameLen(all[i])

\* an identity field of a record, a missing key reading as the empty text
IdentityOf(data, field) ==
    IF field \in DOMAIN data THEN data[field].s
    ELSE IF field = "taxpayer_name" THEN <<>>
    ELSE IF field = "filing_status" THEN "single"
    ELSE ""

\* C3: for two or more records the identity fields of the combined profile
\* (taxpayer_name, ssn, address, city, state, zip_code, filing_status) are all
\* those of the record whose trimmed taxpayer_name is longest, the earliest
\* such record on a tie.
C3_IdentityFromLongestName ==
    (Combined /\ Len(all_tax_data) >= 2) =>
        /\ Returned
        /\ \A field \in {"taxpayer_name", "ssn", "address", "city", "state",
                         "zip_code", "filing_status"} :
               IdentityOf(combine_ret.ret, field)
                   = IdentityOf(all_tax_data[LongestIndex(all_tax_data)], field)

\* what a record contributes to a field: its value as a number, 0 when the
\* key is missing or the value cannot be coerced
ClaimContribution(data, field) ==
    IF field \notin DOMAIN data THEN Zero
    ELSE IF ToFloat(data[field]).ok THEN ToFloat(data[field]).n
    ELSE Zero

RECURSIVE ClaimTotal(_, _)
ClaimTotal(all, field) ==
    IF all = <<>> THEN Zero
    ELSE Add(ClaimContribution(Head(all), field), ClaimTotal(Tail(all), field))

\* C4: for two or more records the combination succeeds and each of the eight
\* monetary fields of the combined profile is the sum of that field over all
\* records, a value that cannot be coerced counting as 0; wages 1000 and 2000
\* give 3000.
C4_MonetarySums ==
    (Combined /\ Len(all_tax_data) >= 2) =>
        /\ Returned
        /\ \A field \in {"wages", "interest_income", "dividend_income",
                         "other_income", "federal_withholding", "state_withholding",
                         "social_security_wages", "medicare_wages"} :
               /\ field \in DOMAIN combine_ret.ret
               /\ combine_ret.ret[field] = Num(ClaimTotal(all_tax_data, field))
        /\ all_tax_data = <<DocList[1], DocList[2]>> =>
               /\ combine_ret.ret["wages"] = Num(Dollars(3000))
               /\ combine_ret.ret["federal_withholding"] = Num(Dollars(100))

\* wages 1000 and 2000 combined, the second record's withholding uncoercible
C4_Witness_Example ==
    /\ Combined /\ Returned
    /\ all_tax_data = <<DocList[1], DocList[2]>>
    /\ all_tax_data[2]["federal_withholding"] = Str(<<"a", "b", "c">>)
    /\ combine_ret.ret["wages"] = Num(Dollars(3000))

\* C5: combining exactly one record returns that record: the same keys, each
\* with the same value.
C5_SingleRecordIdentity ==
    (Combined /\ Len(all_tax_data) = 1) =>
        /\ Returned
        /\ DOMAIN combine_ret.ret = DOMAIN all_tax_data[1]
        /\ \A key \in DOMAIN all_tax_data[1] :
               combine_ret.ret[key] = all_tax_data[1][key]

\* a single record lacking several keys has been combined
C5_Witness_Single ==
    /\ Combined /\ Returned
    /\ all_tax_data = <<DocList[8]>>
    /\ "wages" \notin DOMAIN combine_ret.ret

\* C6: called with an empty sequence the combiner raises (NoDocuments) and
\* returns no profile.
C6_EmptyInputFails ==
    (Combined /\ all_tax_data = <<>>) =>
        /\ combine_ret.raised = "ValueError"
        /\ combine_ret.ret = <<>>

\* the combiner has been called with the empty sequence and has raised
C6_Witness_Empty == Combined /\ all_tax_data = <<>> /\ ~Returned

\* the values the records report for a score
ReportedScores(all, key) == {all[i][key].n : i \in {j \in 1..Len(all) : key \in DOMAIN all[j]}}

\* the score the claim expects: the largest reported value, 0.8 when there is none
ClaimScore(all, key) ==
    IF ReportedScores(all, key) = {} THEN Num(M(0, 80000))
    ELSE Num(CHOOSE m \in ReportedScores(all, key) :
                 \A x \in ReportedScores(all, key) : Le(x, m))

\* C21: for two or more records classification_confidence and
\* extraction_confidence of the combined profile each equal the maximum of the
\* values the records report, and 0.8 when no record reports a value.
C21_ConfidenceMaximum ==
    (Combined /\ Len(all_tax_data) >= 2) =>
        /\ Returned
        /\ \A key \in {"classification_confidence", "extraction_confidence"} :
               combine_ret.ret[key] = ClaimScore(all_tax_data, key)

\* the quality of a record, a record without the key reading as medium
ClaimQuality(data) ==
    IF "document_quality" \in DOMAIN data THEN data["document_quality"].s ELSE "medium"

\* C22: for two or more records document_quality of the combined profile is
\* high if any record is high, else medium if any is medium, else low.
C22_BestQuality ==
    (Combined /\ Len(all_tax_data) >= 2) =>
        /\ Returned
        /\ combine_ret.ret["document_quality"]
               = IF \E i \in 1..Len(all_tax_data) : ClaimQuality(all_tax_data[i]) = "high"
                 THEN Str("high")
                 ELSE IF \E i \in 1..Len(all_tax_data) :
                             ClaimQuality(all_tax_data[i]) = "medium"
                 THEN Str("medium")
                 ELSE Str("low")

\* a high record between two low records has made the profile high
C22_Witness_HighAmongLow ==
    /\ Combined /\ Returned
    /\ all_tax_data = <<DocList[4], DocList[2], DocList[7]>>
    /\ combine_ret.ret["document_quality"] = Str("high")

\* the document type of a record, a record without the key reading as Other
ClaimType(data) ==
    IF "document_type" \in DOMAIN data THEN data["document_type"] ELSE Str("Other")

\* C23: for two or more records document_type of the combined profile is the
\* common type when all records have the same type and "Multiple" otherwise.
C23_DocumentType ==
    (Combined /\ Len(all_tax_data) >= 2) =>
        /\ Returned
        /\ combine_ret.ret["document_type"]
               = IF \A i \in 1..Len(all_tax_data) :
                        ClaimType(all_tax_data[i]) = ClaimType(all_tax_data[1])
                 THEN ClaimType(all_tax_data[1])
                 ELSE Str("Multiple")

\* three W-2 records have been combined into a W-2 profile
C23_Witness_Common ==
    /\ Combined /\ Returned
    /\ all_tax_data = <<DocList[1], DocList[3], DocList[5]>>
    /\ combine_ret.ret["document_type"] = Str("W-2")

\* requires_review of a record or profile, false when the key is missing
ClaimReview(data) == "requires_review" \in DOMAIN data /\ data["requires_review"] = TRUE

\* C24: for every non-empty input requires_review of the returned profile is
\* true if and only if it is true for at least one record.
C24_RequiresReviewAny ==
    (Combined /\ Len(all_tax_data) >= 1) =>
        /\ Returned
        /\ ClaimReview(combine_ret.ret)
               <=> \E i \in 1..Len(all_tax_data) : ClaimReview(all_tax_data[i])

\* the review flag of the last of three records has reached the profile
C24_Witness_LastRecord ==
    /\ Combined /\ Returned
    /\ all_tax_data = <<DocList[1], DocList[3], DocList[2]>>
    /\ combine_ret.ret["requires_review"] = TRUE

----------------------------------------------------------------------------
(* Claims about calculate_taxes, checked under SpecCalc *)

Done == calc_pc = "done"

Failed == "error" \in DOMAIN calculations /\ ~calculations.calculation_success

Succeeded == "error" \notin DOMAIN calculations /\ calculations.calculation_success

\* float(profile[field]) exists and exceeds $50,000,000
ExceedsFieldLimit(p, field) ==
    /\ p.kind = "dict"
    /\ field \in DOMAIN p.f
    /\ ToFloat(p.f[field]).ok
    /\ Lt(Dollars(50000000), ToFloat(p.f[field]).n)

\* C1: calculate_taxes on a profile in which wages, interest_income,
\* other_income or federal_withholding exceeds 50,000,000 returns a result
\* carrying an error field with calculation_success false.
C1_UnreasonableFieldFails ==
    (Done /\ \E i \in 1..4 : ExceedsFieldLimit(profile, monetary_fields_validated[i]))
        => Failed

\* C2: whenever the taxable income computed by calculate_taxes exceeds
\* 100,000,000 the result carries an error field; no successful result reports
\* a taxable income above 100,000,000.
C2_UnreasonableTaxableFails ==
    Done => ~(Succeeded /\ Lt(Dollars(100000000), calculations.taxable_income))

\* the standard-deduction table as the specification states it
ClaimDeductions ==
    [fs \in {"single", "married_filing_jointly", "married_filing_separately",
             "head_of_household"} |->
        CASE fs = "single" -> Dollars(14600)
          [] fs = "married_filing_jointly" -> Dollars(29200)
          [] fs = "married_filing_separately" -> Dollars(14600)
          [] fs = "head_of_household" -> Dollars(21900)]

\* C9: in every successful result taxable_income equals
\* max(0, total_income - standard_deduction), standard_deduction being the table
\* value of the filing status used; with zero income taxable_income and
\* federal_tax are 0.
C9_TaxableIncomeFormula ==
    (Done /\ Succeeded) =>
        /\ calculations.filing_status \in DOMAIN ClaimDeductions
        /\ Dollars(calculations.standard_deduction)
               = ClaimDeductions[calculations.filing_status]
        /\ calculations.taxable_income
               = MaxOf(Zero, Sub(calculations.total_income,
                                 ClaimDeductions[calculations.filing_status]))
        /\ (calculations.total_income = Zero =>
               calculations.taxable_income = Zero /\ calculations.federal_tax = Zero)

\* the deduction exceeds the income and is clamped, for a status other than single
C9_Witness_Clamped ==
    /\ Done /\ Succeeded
    /\ calculations.filing_status = "married_filing_jointly"
    /\ Lt(Zero, calculations.total_income)
    /\ Lt(calculations.total_income, Dollars(29200))
    /\ calculations.taxable_income = Zero

\* float(tax_data[field]) of the validated profile, 0 for a missing key
ValidatedField(field) == ToFloat(Get(tax_data.f, field, Num(Zero))).n

\* C10: in every successful result total_income (reported in whole cents) equals
\* wages + interest_income + other_income of the validated profile, and
\* replacing the profile's dividend_income by any other value leaves
\* total_income unchanged.
C10_TotalIncomeExcludesDividends ==
    (Done /\ Succeeded) =>
        /\ calculations.total_income
               = Round2(Add(Add(ValidatedField("wages"),
                                ValidatedField("interest_income")),
                            ValidatedField("other_income")))
        /\ \A dv \in DividendInputs :
               calculate_taxes([profile EXCEPT !.f = Put(@, "dividend_income", dv)])
                   .ret.total_income = calculations.total_income

\* a successful result for a profile with dividends and a positive total
C10_Witness_Dividends ==
    /\ Done /\ Succeeded
    /\ "dividend_income" \in DOMAIN profile.f
    /\ profile.f["dividend_income"] = Num(Dollars(7000))
    /\ calculations.total_income = M(60250, 0)

\* C11: in every successful result refund_or_owed equals federal_withholding
\* minus federal_tax, and is_refund is true exactly when the reported
\* refund_or_owed is strictly positive; a difference of zero gives is_refund
\* false.
C11_RefundSign ==
    (Done /\ Succeeded) =>
        /\ calculations.refund_or_owed
               = Round2(Sub(ValidatedField("federal_withholding"),
                            calculations.federal_tax))
        /\ calculations.is_refund <=> Lt(Zero, calculations.refund_or_owed)

ResultFields ==
    {"total_income", "standard_deduction", "taxable_income", "federal_tax",
     "federal_withholding", "refund_or_owed", "is_refund", "filing_status",
     "calculation_success"}

\* C12: calculate_taxes always returns a result object; a failure is a result
\* carrying an error field with calculation_success false and total_income,
\* taxable_income, federal_tax, federal_withholding and refund_or_owed all 0; a
\* result without an error field has calculation_success true.
C12_NeverRaises ==
    Done =>
        /\ ResultFields \subseteq DOMAIN calculations
        /\ "error" \in DOMAIN calculations =>
               /\ ~calculations.calculation_success
               /\ \A field \in {"total_income", "taxable_income", "federal_tax",
                                "federal_withholding", "refund_or_owed"} :
                      calculations[field] = Zero
        /\ "error" \notin DOMAIN calculations => calculations.calculation_success

\* a profile whose filing status is not a text has been answered by an error
\* result of the catch-all clause
C12_Witness_NonTextStatus ==
    /\ Done /\ Failed
    /\ profile.kind = "dict"
    /\ "filing_status" \in DOMAIN profile.f
    /\ profile.f["filing_status"] = None
    /\ calculations.error = "unexpected"

\* C13: after the call every field of the profile passed in has the value it
\* had before the call.
C13_ProfileNotMutated == Done => tax_data = profile

\* the filing status the claim expects for a profile
ClaimStatus(p) ==
    IF p.kind = "dict" /\ "filing_status" \in DOMAIN p.f
          /\ p.f["filing_status"].k = "str"
          /\ Lower(p.f["filing_status"].s) \in DOMAIN ClaimDeductions
    THEN Lower(p.f["filing_status"].s)
    ELSE "single"

\* C14: the filing status reported by calculate_taxes is the profile's
\* lower-cased filing status when that is a key of the standard-deduction
\* table and "single" for every other value, qualifying_widow included; it is
\* always one of the four table keys, and the deduction used is the one of the
\* reported status.
C14_FilingStatusFallback ==
    Done =>
        /\ calculations.filing_status \in DOMAIN ClaimDeductions
        /\ calculations.filing_status = ClaimStatus(profile)
        /\ Succeeded =>
               Dollars(calculations.standard_deduction)
                   = ClaimDeductions[ClaimStatus(profile)]

\* a profile with filing status qualifying_widow has been computed as single
C14_Witness_Widow ==
    /\ Done /\ Succeeded
    /\ "filing_status" \in DOMAIN profile.f
    /\ profile.f["filing_status"] = Str("qualifying_widow")
    /\ calculations.filing_status = "single"

----------------------------------------------------------------------------
(* Claims about calculate_federal_tax, checked under SpecTax *)

\* the single-filer table as the specification states it: lower edge, upper
\* edge (top marks the unbounded bracket) and rate in percent
ClaimBrackets ==
    << [lo |-> 0,      hi |-> 11000,  top |-> FALSE, rate |-> 10],
       [lo |-> 11000,  hi |-> 44725,  top |-> FALSE, rate |-> 12],
       [lo |-> 44725,  hi |-> 95375,  top |-> FALSE, rate |-> 22],
       [lo |-> 95375,  hi |-> 182050, top |-> FALSE, rate |-> 24],
       [lo |-> 182050, hi |-> 231250, top |-> FALSE, rate |-> 32],
       [lo |-> 231250, hi |-> 578125, top |-> FALSE, rate |-> 35],
       [lo |-> 578125, hi |-> 578125, top |-> TRUE,  rate |-> 37] >>

\* the part of t inside bracket k: min(t, hi) - lo, nothing when t <= lo
ClaimBand(t, k) ==
    LET b   == ClaimBrackets[k]
        cap == IF b.top THEN t ELSE MinOf(t, Dollars(b.hi))
    IN  MaxOf(Zero, Sub(cap, Dollars(b.lo)))

RECURSIVE ClaimSum(_, _)
ClaimSum(t, k) ==
    IF k = 0 THEN Zero
    ELSE Add(ClaimSum(t, k - 1), MulRate(ClaimBand(t, k), ClaimBrackets[k].rate))

\* tax of the full brackets up to each bracket limit, from the table by hand
ClaimTaxAtLimit ==
    << M(1100, 0), M(5147, 0), M(16290, 0), M(37092, 0), M(52836, 0),
       M(174242, 25000) >>

FedCalled == fed_calls >= 1

\* C7: for 0 < t <= 100,000,000 calculate_federal_tax(t) is the marginal
\* bracket sum over the single-filer table (as a whole number of cents); for
\* t <= 0 it is 0; t = 50000 gives 6307.50 and a bracket limit gives the sum of
\* the full brackets up to it.
C7_MarginalBracketSum ==
    FedCalled =>
        /\ Le(fed_arg, Zero) => fed_ret = Zero
        /\ (Lt(Zero, fed_arg) /\ Le(fed_arg, Dollars(100000000))) =>
               fed_ret = Round2(ClaimSum(fed_arg, 7))
        /\ fed_arg = Dollars(50000) => fed_ret = M(6307, 50000)
        /\ \A k \in 1..6 :
               fed_arg = Dollars(ClaimBrackets[k].hi) => fed_ret = ClaimTaxAtLimit[k]

\* the example of the specification has been computed
C7_Witness_Example == FedCalled /\ fed_arg = Dollars(50000) /\ fed_ret = M(6307, 50000)

Accepted(t) == Le(t, Dollars(100000000))

\* C8: for accepted taxable incomes t1 <= t2 the tax of t1 is at most the tax
\* of t2.
C8_BracketMonotonicity ==
    (fed_calls = 2 /\ Accepted(fed_prev_arg) /\ Accepted(fed_arg)
        /\ Le(fed_prev_arg, fed_arg))
        => Le(fed_prev_ret, fed_ret)

\* two accepted incomes in different brackets, the tax strictly growing
C8_Witness_AcrossLimit ==
    /\ fed_calls = 2
    /\ fed_prev_arg = Mills(44725, 1)
    /\ fed_arg = Dollars(100000000)
    /\ Lt(fed_prev_ret, fed_ret)

----------------------------------------------------------------------------
(* Claims about extract_tax_data_with_ai, checked under SpecExtract *)

ExtractDone == extract_pc = "done"

ExtractReturned == ExtractDone /\ extract_ret.raised = ""

\* the failure raised when the retries are exhausted
ExtractionFailed ==
    ExtractDone /\ extract_ret.raised = "ValueError"
        /\ extract_ret.message = "AI extraction failed"

\* the attempts made so far, the latest left out, all failed
EarlierAttemptsFailed == \A i \in 1..(Len(outcomes) - 1) : outcomes[i] # ""

\* the latest attempt failed
LatestAttemptFailed == outcomes # <<>> /\ outcomes[Len(outcomes)] # ""

\* C15: the service is called at most 3 times for one document; the record of
\* the first successful attempt is returned and no call follows it; every
\* failed attempt (service error, empty text, malformed JSON, non-object JSON)
\* before the third is followed by a retry; ExtractionFailed is raised only
\* after the third attempt has failed and carries the error of that attempt.
C15_RetryPolicy ==
    /\ service_calls <= 3
    /\ service_calls = Len(outcomes)
    /\ EarlierAttemptsFailed
    /\ (service_calls >= 1
           /\ response.kind \in {"raise", "none", "empty", "malformed", "array"})
          => LatestAttemptFailed
    /\ (LatestAttemptFailed /\ service_calls < 3) => extract_pc \in {"sleep", "call"}
    /\ ExtractReturned =>
          /\ service_calls >= 1
          /\ ~LatestAttemptFailed
          /\ response.kind = "object"
          /\ extract_ret.data = NormalizeObject(response.data).data
    /\ ExtractionFailed =>
          /\ service_calls = 3
          /\ LatestAttemptFailed
          /\ extract_ret.last = outcomes[3]
          /\ extract_ret.last = last_error

\* three attempts have failed for three different reasons and the failure
\* carries the reason of the third
C15_Witness_Exhausted ==
    /\ ExtractionFailed
    /\ outcomes = <<"service error", "Invalid JSON format",
                    "Response is not a JSON object">>
    /\ extract_ret.last = "Response is not a JSON object"

ClaimMoneyFields ==
    {"wages", "interest_income", "dividend_income", "other_income",
     "federal_withholding", "state_withholding", "social_security_wages",
     "medicare_wages"}

\* C16: every record returned by the normalizer has all eight monetary fields
\* as non-negative numbers, and no monetary value makes the record fail: an
\* attempt whose response is a JSON object returns a record.
C16_MoneyNonNegative ==
    /\ (service_calls >= 1 /\ response.kind = "object") => ExtractReturned
    /\ ExtractReturned =>
           \A field \in ClaimMoneyFields :
               /\ field \in DOMAIN extract_ret.data
               /\ extract_ret.data[field].k = "num"
               /\ Le(Zero, extract_ret.data[field].n)

\* the number a raw monetary value stands for, when it stands for one
RawAmount(raw, field) ==
    IF field \in DOMAIN raw THEN MoneyFloat(CleanMoney(raw[field]))
    ELSE Floated("", Num(Zero))

\* the raw value of the field is a number greater than 10,000,000
AboveHighLimit(raw, field) ==
    /\ RawAmount(raw, field).exc = ""
    /\ RawAmount(raw, field).v.k = "num"
    /\ Lt(Dollars(10000000), RawAmount(raw, field).v.n)

\* the flags of the raw response, none when the key is missing
RawFlags(raw) == IF "validation_flags" \in DOMAIN raw THEN raw["validation_flags"] ELSE <<>>

\* C17: when a monetary value greater than 10,000,000 is received the returned
\* record keeps the value and is flagged for review: requires_review is true
\* or a validation flag has been added.
C17_HighValueFlagged ==
    ExtractReturned =>
        \A field \in ClaimMoneyFields :
            AboveHighLimit(response.data, field) =>
                /\ extract_ret.data[field] = RawAmount(response.data, field).v
                /\ \/ extract_ret.data["requires_review"] = TRUE
                   \/ Len(extract_ret.data["validation_flags"])
                          > Len(RawFlags(response.data))

\* C18: no returned record has both a non-empty ssn and a non-empty itin.
C18_SsnItinExclusive ==
    ExtractReturned =>
        ~(extract_ret.data["ssn"].s # <<>> /\ extract_ret.data["itin"].s # <<>>)

\* C19: a record returned by the normalizer, fed through the normalizer again,
\* comes back equal field for field.
C19_NormalizeIdempotent ==
    ExtractReturned =>
        /\ NormalizeObject(extract_ret.data).exc = ""
        /\ NormalizeObject(extract_ret.data).data = extract_ret.data

\* a record filled entirely with defaults has been returned
C19_Witness_Defaults ==
    /\ ExtractReturned
    /\ response.data = EmptyObject
    /\ extract_ret.data["wages"] = Num(Zero)
    /\ extract_ret.data["filing_status"] = Str(<<"s", "i", "n", "g", "l", "e">>)

\* the value the claim expects of an enumerated field: the received text when
\* it is in the set, the default otherwise
ClaimEnum(raw, field, allowed, default) ==
    IF field \in DOMAIN raw /\ Strip(PyStr(raw[field])) \in allowed
    THEN Str(Strip(PyStr(raw[field])))
    ELSE Str(default)

\* a money field of the raw response is an integer beyond the range of a float
MoneyOverflows(raw) ==
    \E field \in ClaimMoneyFields \cap DOMAIN raw : raw[field].k = "bigint"

\* C20: after normalization filing_status is one of the five enumerated
\* values, document_type one of the six types and document_quality one of
\* high, medium, low; a value inside the set is kept and a value outside it is
\* replaced by single, Other and medium respectively; the record does not fail.
C20_EnumsNormalized ==
    /\ Cardinality(filing_statuses) = 5
    /\ Cardinality(document_types) = 6
    /\ Cardinality(document_qualities) = 3
    /\ (service_calls >= 1 /\ response.kind = "object" /\ ~MoneyOverflows(response.data))
          => ~LatestAttemptFailed
    /\ ExtractReturned =>
          /\ extract_ret.data["filing_status"].s \in filing_statuses
          /\ extract_ret.data["document_type"].s \in document_types
          /\ extract_ret.data["document_quality"].s \in document_qualities
          /\ extract_ret.data["filing_status"]
                 = ClaimEnum(response.data, "filing_status", filing_statuses, <<"s", "i", "n", "g", "l", "e">>)
          /\ extract_ret.data["document_type"]
                 = ClaimEnum(response.data, "document_type", document_types, <<"O", "t", "h", "e", "r">>)
          /\ extract_ret.data["document_quality"]
                 = ClaimEnum(response.data, "document_quality", document_qualities,
                             <<"m", "e", "d", "i", "u", "m">>)

\* values outside the three sets have been received and replaced
C20_Witness_Replaced ==
    /\ ExtractReturned
    /\ "filing_status" \in DOMAIN response.data
    /\ response.data["filing_status"] = Str(<<"S", "i", "n", "g", "l", "e">>)
    /\ response.data["document_type"] = Str(<<"w", "-", "2">>)
    /\ response.data["document_quality"] = Str(<<"H", "I", "G", "H">>)
    /\ extract_ret.data["filing_status"] = Str(<<"s", "i", "n", "g", "l", "e">>)
    /\ extract_ret.data["document_type"] = Str(<<"O", "t", "h", "e", "r">>)
    /\ extract_ret.data["document_quality"] = Str(<<"m", "e", "d", "i", "u", "m">>)

\* the backoff schedule the claim states, in seconds
ClaimSchedule == <<1, 2, 4>>

\* C25: when every attempt fails the caller waits 1s, then 2s, then 4s, one wait
\* after each failed call, so all three waits have occurred when
\* ExtractionFailed is raised; no wait follows a successful attempt.
C25_BackoffSchedule ==
    /\ ExtractionFailed => waits = ClaimSchedule
    /\ ExtractReturned => waits = SubSeq(ClaimSchedule, 1, service_calls - 1)

\* the text of the zip_code the response carries, empty when there is none
RawZip(raw) ==
    IF "zip_code" \in DOMAIN raw THEN Strip(PyStr(raw["zip_code"])) ELSE <<>>

\* the ZIP code the claim expects for the digits found
ClaimZip(digits) ==
    IF Len(digits) = 5 THEN digits
    ELSE IF Len(digits) >= 9
    THEN SubSeq(digits, 1, 5) \o <<"-">> \o SubSeq(digits, 6, 9)
    ELSE <<>>

\* C26: of a non-empty zip_code only the digits count: exactly 5 digits are
\* returned as they are, 9 or more as the first five, a dash and the next four,
\* and any other number of digits gives the empty string.
C26_ZipNormalization ==
    (ExtractReturned /\ RawZip(response.data) # <<>>) =>
        extract_ret.data["zip_code"] = Str(ClaimZip(OnlyDigits(RawZip(response.data))))

----------------------------------------------------------------------------
(* Claims about upload_file and the cache *)

\* the steps of a request in the order the claim gives them: a pass per file,
\* then the combination of n records, the calculation, and the two stores
ClaimSteps(files, n) ==
    [i \in 1..files |-> Step("file", i)]
    \o <<Step("combine", n), Step("calculate", 0), Step("store_tax", 0),
         Step("store_calc", 0)>>

HasStep(l, op) == \E k \in 1..Len(l.log) : l.log[k].op = op

\* the files of the request for which no record could be made: those the loop
\* recorded an error for and those without a name
FailedFile(l, i) ==
    \/ l.request.files[i].filename = <<>>
    \/ \E k \in 1..Len(l.processing_errors) : l.processing_errors[k].file = i

\* the records of the files that succeeded, in the order of the files
RECURSIVE SucceededRecords(_, _)
SucceededRecords(l, i) ==
    IF i = 0 THEN <<>>
    ELSE IF FailedFile(l, i) THEN SucceededRecords(l, i - 1)
    ELSE Append(SucceededRecords(l, i - 1),
                Put(l.request.files[i].ai.data, "source_filename",
                    Str(SecureFileNames[i])))

\* C27: the steps of one upload request are strictly ordered. Its log is
\* always a prefix of: one pass per file in the order of the batch, one
\* combination, one calculation, the cache stores. Hence the combination comes
\* after every file was attempted and never twice, it is given exactly the
\* records of the files that succeeded, the calculation comes after it, and
\* the cache is written only after a calculation whose result has no error.
C27_StepsOrdered ==
    \A t \in Workers :
        /\ \E m \in 0..Len(upload[t].log) :
               upload[t].log
                 = SubSeq(ClaimSteps(Len(upload[t].request.files),
                                     Len(upload[t].all_tax_data)), 1, m)
        /\ HasStep(upload[t], "combine") =>
               /\ upload[t].all_tax_data # <<>>
               /\ upload[t].all_tax_data
                    = SucceededRecords(upload[t], Len(upload[t].request.files))
        /\ (HasStep(upload[t], "store_tax") \/ upload[t].response.code = 200) =>
               /\ HasStep(upload[t], "calculate")
               /\ "error" \notin DOMAIN upload[t].calculations
               /\ upload[t].calculations.calculation_success

\* a request of two files, the first of which failed, went through all steps
C27_Witness_AllSteps ==
    /\ upload[1].pc = "done"
    /\ upload[1].response.code = 200
    /\ Len(upload[1].request.files) = 2
    /\ Len(upload[1].processing_errors) = 1
    /\ upload[1].log = ClaimSteps(2, 1)

\* C28: the profile and the calculations a form generation request reads
\* from the cache were stored by the same upload request, whatever the
\* interleaving of the requests.
C28_FormReadsOneUpload ==
    form.pc \in {"generate", "done"} => form.tax_by = form.calc_by

\* C29: an upload request that ends in an error response leaves
\* current_tax_data and current_calculations as it found them; the cache
\* differs from what a finished request found only when the request completed
\* its calculation successfully.
C29_ErrorLeavesCache ==
    \A t \in Workers :
        upload[t].pc = "done" =>
            /\ upload[t].response.code # 200 =>
                   <<current_tax_data, current_calculations>> = upload[t].before
            /\ <<current_tax_data, current_calculations>> # upload[t].before =>
                   /\ upload[t].response.code = 200
                   /\ "error" \notin DOMAIN upload[t].calculations
                   /\ upload[t].calculations.calculation_success

\* a request none of whose files could be processed ended with an error
\* while the cache held the result of an earlier upload
C29_Witness_FailedAfterSuccess ==
    /\ upload[1].pc = "done"
    /\ upload[1].response = Reply(400, "No files could be processed successfully.")
    /\ upload[1].before[1] # NoCache
    /\ current_tax_data = upload[1].before[1]
    /\ current_calculations = upload[1].before[2]

\* the file cannot give a record: it fails the validation, cannot be read,
\* is no PDF, has no text, or its AI extraction fails after the retries
ClaimFileFails(file) ==
    \/ ~validate_file_comprehensive(file).ok
    \/ file.stream # "ok"
    \/ file.content_type # "application/pdf"
    \/ file.pdf # "text"
    \/ file.ai.raised

ErrorsFor(l, i) ==
    {k \in 1..Len(l.processing_errors) : l.processing_errors[k].file = i}

RecordsFrom(l, i) ==
    {k \in 1..Len(l.all_tax_data) :
         l.all_tax_data[k]["source_filename"] = Str(SecureFileNames[i])}

NoFilesProcessed == "No files could be processed successfully."

\* C30: in a request that reaches the per-file loop, a named file that fails
\* is recorded as one processing error and gives no record, every other named
\* file gives one record and no error, the loop goes on to the last file
\* whatever failed before, and the request ends with the 'no files could be
\* processed' error exactly when no file of the batch gave a record.
C30_FailureIsolation ==
    \A t \in Workers :
        /\ \A i \in 1..upload[t].i :
               IF upload[t].request.files[i].filename = <<>>
               THEN ErrorsFor(upload[t], i) = {} /\ RecordsFrom(upload[t], i) = {}
               ELSE IF ClaimFileFails(upload[t].request.files[i])
               THEN /\ Cardinality(ErrorsFor(upload[t], i)) = 1
                    /\ RecordsFrom(upload[t], i) = {}
               ELSE /\ ErrorsFor(upload[t], i) = {}
                    /\ Cardinality(RecordsFrom(upload[t], i)) = 1
        /\ (upload[t].pc = "done" /\ upload[t].log # <<>>) =>
               /\ upload[t].i = Len(upload[t].request.files)
               /\ upload[t].response.error = NoFilesProcessed
                    <=> upload[t].all_tax_data = <<>>
        /\ upload[t].response.error = NoFilesProcessed => upload[t].log # <<>>

\* a batch whose first file failed and whose second file gave the record the
\* request succeeded with
C30_Witness_SecondFileProcessed ==
    /\ upload[1].pc = "done"
    /\ upload[1].response.code = 200
    /\ Len(upload[1].request.files) = 2
    /\ ClaimFileFails(upload[1].request.files[1])
    /\ upload[1].request.files[1].filename # <<>>
    /\ Len(upload[1].processing_errors) = 1
    /\ Len(upload[1].all_tax_data) = 1
    /\ upload[1].all_tax_data[1]["source_filename"] = Str(SecureFileNames[2])

====
